---- MODULE Spec2Model ----
(***************************************************************************)
(* BlueChat: the device-session connection manager                         *)
(* (src/services/bluetoothService.ts, class BluetoothService) together     *)
(* with the part of the Web Bluetooth platform it drives: the device       *)
(* picker, the GATT link of each device and the event listeners the        *)
(* service registers on platform objects.                                  *)
(*                                                                         *)
(* Handles are modelled by the number of the device they belong to; 0 is   *)
(* null.  Every asynchronous method is split at its awaits: the call       *)
(* action runs the code up to the first await, one action per resumption   *)
(* runs the code up to the next await.                                     *)
(*                                                                         *)
(* What the platform does, as the Web Bluetooth API defines it:            *)
(*  - device.gatt.disconnect() on a connected device dispatches            *)
(*    'gattserverdisconnected' at the device before it returns;            *)
(*  - the picker returns the same device object each time the same device  *)
(*    is chosen, so the listeners added to it by earlier connects remain   *)
(*    (the service never removes one);                                     *)
(*  - when a link closes, the operations pending on it reject, and the     *)
(*    characteristic objects of that link are gone with their listeners.   *)
(***************************************************************************)
EXTENDS Integers, FiniteSets, Sequences, TLC

\* ---- bounds of the exploration --------------------------------------------
NumDevices == 2        \* platform devices
DevicesInRange == 1    \* devices the picker offers in the lifecycle specification
NumCallbacks == 1      \* distinct callback functions a caller registers
MaxListeners == 2      \* connects started on one device object
MaxRow == 2            \* disconnect() calls in a row
MaxSends == 1          \* send() calls (and fabricated replies) outstanding at once
MaxCount == 1          \* how far connTotal and discTotal count
MaxLen == 1            \* characters in a text sent or received
MaxFrames == 2         \* inbound notifications logged
NumSubscribers == 2    \* distinct callbacks passed to onMessage where frames are logged
MaxConnects == 2       \* connect() calls outstanding at once where the caller overlaps them
MaxMounts == 2         \* times the chat view mounts
MaxMessages == 3       \* messages in the chat log
MaxClock == 1          \* how far Date.now() moves on
MaxChatSends == 2      \* handleSend calls (and fabricated replies) outstanding at once
MaxWrites == 2         \* write requests the reference peripheral receives
MaxSubscriptions == 2  \* times a client subscribes to the peripheral's TX characteristic

Devices == 1..NumDevices
Callbacks == 1..NumCallbacks
Subscribers == 1..NumSubscribers

VARIABLES
  \* fields of BluetoothService
  device, server, rxCharacteristic, txCharacteristic,
  onMessageCallback, onDisconnectCallback, isSimulation,
  \* platform objects
  gattConnected,   \* device.gatt.connected, per device
  listeners,       \* 'gattserverdisconnected' listeners on each device object
  txListeners,     \* 'characteristicvaluechanged' listeners on the TX characteristic
  \* asynchronous calls in flight
  scanPc,          \* "idle", "timer" (simulated scan), "picker" (requestDevice)
  connTasks,       \* one record per connect() call: where it is suspended
  writes,          \* writeValue promises outstanding, per device
  simSends,        \* simulated sends whose 300 ms timer is pending
  simReplies,      \* fabricated replies whose 2000 ms timer is pending
  \* observers (history of what the caller saw)
  connected,       \* a connect has resolved and cleanup has not run since
  everScanned,     \* some scan() has resolved
  counting,        \* whether the two totals below are kept (fixed at start)
  connTotal,       \* connects that resolved successfully (counted up to MaxCount)
  discTotal,       \* invocations of the disconnect subscriber (up to MaxCount)
  registered,      \* the callback of the latest onMessage call
  framing,         \* whether inbound notifications are logged (fixed at start)
  emitted,         \* notifications the platform has dispatched (numbered from 1)
  delivered,       \* the numbers of the notifications handed to the subscriber, in order
  peripheral,      \* the reference peripheral (ubuntu-server.js)
  lastOp,          \* the step just taken and what it did
  \* the user interface (React state of the mounted components)
  app,             \* App: currentView, activeDevice
  scanner,         \* DeviceScanner: isScanning, devices, error, its handleConnect calls
  chat,            \* ChatScreen: messages, its effect, its handleSend calls
  now,             \* Date.now()
  uiOp             \* what the user interface did in the step just taken

svc == <<device, server, rxCharacteristic, txCharacteristic>>
subs == <<onMessageCallback, onDisconnectCallback>>
platform == <<gattConnected, listeners, txListeners>>
inflight == <<scanPc, connTasks, writes, simSends, simReplies>>
counts == <<counting, connTotal, discTotal>>
frames == <<framing, emitted, delivered>>
ui == <<app, scanner, chat, now, uiOp>>
vars == <<svc, subs, isSimulation, platform, inflight, connected, everScanned,
          counts, registered, frames, peripheral, lastOp, ui>>

\* ---- helpers --------------------------------------------------------------
RealPcs == {"gattConnect", "getService", "getRx", "getTx", "startNotif"}

\* A connect() call suspended at pc on the link of device d (0: no link).
Task(pc, d) == [pc |-> pc, dev |-> d, aborted |-> FALSE]

\* The tasks ts without the i-th, which has settled.
Settle(ts, i) == [j \in 1..(Len(ts) - 1) |-> IF j < i THEN ts[j] ELSE ts[j + 1]]

Min(a, b) == IF a < b THEN a ELSE b

\* A total x after n more events: kept only when counting, and up to MaxCount.
Count(x, n) == IF counting THEN Min(x + n, MaxCount) ELSE x

\* The sum of f over the devices.
Total(f) ==
  LET S[n \in 0..NumDevices] == IF n = 0 THEN 0 ELSE S[n - 1] + f[n]
  IN S[NumDevices]

\* The protocol step (spec 4.2, steps 1..5) a suspended connect is waiting on.
StepOf(pc) ==
  CASE pc = "gattConnect" -> 1
    [] pc = "getService" -> 2
    [] pc = "getRx" -> 3
    [] pc = "getTx" -> 3
    [] pc = "startNotif" -> 4
    [] OTHER -> 0

ConnectInFlight == connTasks # <<>>

\* The state of spec 4.2's machine as the caller can know it: Connecting
\* while a connect() call is outstanding, Connected from the moment a connect
\* resolves until cleanup() runs.
Phase ==
  IF ConnectInFlight THEN "Connecting"
  ELSE IF connected THEN "Connected"
  ELSE IF device # 0 THEN "Scanned"
  ELSE "Idle"

HandlesNull ==
  device = 0 /\ server = 0 /\ rxCharacteristic = 0 /\ txCharacteristic = 0

\* The platform ends device d's GATT link: every operation pending on it is
\* rejected when it completes.
AbortTasks(ts, d) ==
  [t \in 1..Len(ts) |->
     IF ts[t].pc \in RealPcs /\ ts[t].dev = d
     THEN [ts[t] EXCEPT !.aborted = TRUE] ELSE ts[t]]

\* ---- texts and their bytes -------------------------------------------------
\* A text is a sequence of UTF-16 units as a JavaScript string holds them:
\* a letter, an accented letter, U+FEFF (the byte order mark), U+FFFD (the
\* replacement character) and a high surrogate with no low surrogate after it.
Chars == {"a", "e-acute", "U+FEFF", "U+FFFD", "U+D800"}

\* The characters that are Unicode scalar values.
Scalars == Chars \ {"U+D800"}

\* The UTF-8 bytes of a scalar value.
Utf8Bytes(c) ==
  CASE c = "a" -> <<97>>
    [] c = "e-acute" -> <<195, 169>>
    [] c = "U+FEFF" -> <<239, 187, 191>>
    [] OTHER -> <<239, 191, 189>>

\* The sequences over S of length up to n.
SeqUpTo(S, n) == UNION {[1..k -> S] : k \in 0..n}

\* What a caller passes to send, and what a peer puts in a notification.
Texts == SeqUpTo(Chars \ {"U+FFFD"}, MaxLen)
PeerTexts == SeqUpTo(Scalars \ {"U+FFFD"}, MaxLen)

\* An encoder that writes one byte per UTF-16 unit (Latin-1 style).
Encode_OneBytePerUnit(text) ==
  [k \in 1..Len(text) |->
     CASE text[k] = "a" -> 97 [] text[k] = "e-acute" -> 233 [] OTHER -> 63]

\* new TextEncoder().encode(text): the UTF-8 bytes of each scalar value, an
\* unpaired surrogate being replaced by U+FFFD.
RECURSIVE Encode(_)
Encode(text) ==
  IF text = <<>> THEN <<>>
  ELSE Utf8Bytes(IF Head(text) \in Scalars THEN Head(text) ELSE "U+FFFD")
       \o Encode(Tail(text))

\* The UTF-8 encoding of a sequence of scalar values, as a peer produces it.
Utf8Of(text) ==
  LET F[k \in 0..Len(text)] ==
        IF k = 0 THEN <<>> ELSE F[k - 1] \o Utf8Bytes(text[k])
  IN F[Len(text)]

\* Whether the bytes p begin the bytes b.
IsPrefix(p, b) == Len(p) <= Len(b) /\ SubSeq(b, 1, Len(p)) = p

\* The UTF-8 decoder's loop: a well-formed sequence yields its scalar value,
\* any other byte yields U+FFFD.
RECURSIVE DecodeFrom(_)
DecodeFrom(b) ==
  IF b = <<>> THEN <<>>
  ELSE IF \E c \in Scalars : IsPrefix(Utf8Bytes(c), b)
       THEN LET c == CHOOSE x \in Scalars : IsPrefix(Utf8Bytes(x), b)
            IN <<c>> \o DecodeFrom(SubSeq(b, Len(Utf8Bytes(c)) + 1, Len(b)))
       ELSE <<"U+FFFD">> \o DecodeFrom(Tail(b))

\* new TextDecoder('utf-8').decode(value): a leading byte order mark is
\* consumed (ignoreBOM is left at its default), the rest is decoded.
Decode(value) ==
  IF IsPrefix(Utf8Bytes("U+FEFF"), value)
  THEN DecodeFrom(SubSeq(value, Len(Utf8Bytes("U+FEFF")) + 1, Len(value)))
  ELSE DecodeFrom(value)

\* The text and frame used where the payload does not matter.
Hello == <<"a">>

\* The fabricated scan result (names as in the source).
MOCK_DEVICES ==
  << [id |-> "mock-1", name |-> "iPhone 13 Pro (Sim)", rssi |-> -45],
     [id |-> "mock-2", name |-> "Galaxy S23 (Sim)", rssi |-> -62],
     [id |-> "mock-3", name |-> "ESP32_UART_DEVICE", rssi |-> -80] >>

\* The fabricated replies (the source's five sentences, in English).
MOCK_RESPONSES ==
  << "Hello! The link is stable.",
     "Data received.",
     "This is a test message through the Bluetooth simulation.",
     "Nice interface!",
     "Offline chat works very well." >>

\* device.name of platform device d: the first advertises the name of the
\* picker's filter, the others advertise none.
DeviceName(d) == IF d = 1 THEN "BlueChat" ELSE ""

\* The one descriptor a real scan returns for the device d the user picked.
Descriptor(d) ==
  [id |-> ToString(d),
   name |-> IF DeviceName(d) # "" THEN DeviceName(d) ELSE "Unknown device",
   rssi |-> -50]

NoOp == [op |-> "init", sim |-> FALSE, outcome |-> "none", step |-> 0,
         discCalls |-> 0, msgCalls |-> 0, wrote |-> FALSE, phase |-> "Idle",
         handlesKept |-> TRUE, onCurrent |-> FALSE, row |-> 0, rowCalls |-> 0, rowConnected |-> FALSE,
         dev |-> 0, afterScan |-> FALSE, scanDev |-> 0, afterFailure |-> FALSE,
         text |-> <<>>, value |-> <<>>, to |-> 0, replaced |-> FALSE,
         found |-> <<>>, reply |-> ""]

\* The steps from a failed connect to the next session: a scan, its
\* resolution, a connect and the steps of its protocol.
RecoverySteps == {"scan", "scanResolved", "connect", "connectStep", "connectResolved"}

\* A step named o taken in the current state; the other fields are filled in
\* by the action.  afterFailure tells that nothing but RecoverySteps was done
\* since a connect was rejected, replaced that a frame is delivered right
\* after an onMessage call put another callback in the slot.
Op(o) == [NoOp EXCEPT !.op = o, !.sim = isSimulation, !.phase = Phase,
                      !.afterFailure = (o \in RecoverySteps /\ lastOp.afterFailure),
                      !.replaced = /\ o \in {"notify", "simReply"}
                                   /\ lastOp.op = "onMessage"
                                   /\ lastOp.replaced]

\* Invocations of the disconnect subscriber made by n runs of cleanup().
SubscriberCalls(n) == IF onDisconnectCallback # 0 THEN n ELSE 0

\* No device (activeDevice null, no handleConnect call to make).
NoDevice == ""

\* DeviceScanner as it mounts, with the handleConnect calls ws still waiting.
ScannerMounts(ws) ==
  [isScanning |-> FALSE, devices |-> <<>>, error |-> "", connectDue |-> <<>>,
   waiters |-> ws]

\* The user interface as App mounts: the scanner view, no chat view yet.
UiBoot ==
  /\ app = [currentView |-> "SCANNER", activeDevice |-> NoDevice]
  /\ scanner = ScannerMounts(<<>>)
  /\ chat = [instance |-> 0, effect |-> "none", messages |-> <<>>, waiters |-> <<>>]
  /\ now = 0
  /\ uiOp = [op |-> "none", id |-> 0, inst |-> 0]

\* A step of the peripheral: what it did, for which write request (0: none),
\* who was subscribed when it began, and the data it emitted (the empty
\* sequence when it emitted nothing, a notification having at least the
\* bytes of the quotation marks or of the greeting).
PeripheralStep(op, n, sub, data) == [op |-> op, n |-> n, sub |-> sub, emitted |-> data]

\* ubuntu-server.js as it starts: no subscriber (updateValueCallback null),
\* no timer armed; the rest records what it has done.
PeripheralBoot ==
  peripheral = [updateValueCallback |-> 0, subscriptions |-> 0, writes |-> 0,
                written |-> <<>>, acks |-> <<>>, timers |-> <<>>,
                out |-> [n \in 0..MaxWrites |-> 0],
                last |-> PeripheralStep("none", 0, 0, <<>>)]

Boot(count, log) ==
  /\ UiBoot
  /\ PeripheralBoot
  /\ counting = count
  /\ framing = log
  /\ registered = 0 /\ emitted = 0 /\ delivered = <<>>
  /\ device = 0 /\ server = 0 /\ rxCharacteristic = 0 /\ txCharacteristic = 0
  /\ onMessageCallback = 0 /\ onDisconnectCallback = 0
  /\ isSimulation \in BOOLEAN
  /\ gattConnected = [d \in Devices |-> FALSE]
  /\ listeners = [d \in Devices |-> 0]
  /\ txListeners = [d \in Devices |-> 0]
  /\ scanPc = "idle"
  /\ connTasks = <<>>
  /\ writes = [d \in Devices |-> 0]
  /\ simSends = 0 /\ simReplies = 0
  /\ connected = FALSE /\ everScanned = FALSE
  /\ connTotal = 0 /\ discTotal = 0
  /\ lastOp = NoOp

\* The state after construction (the module's singleton, before any call).
Init == Boot(FALSE, FALSE)

\* The same, with the totals kept.
InitCount == Boot(TRUE, FALSE)

\* The same, with the inbound notifications logged.
InitFrames == Boot(FALSE, TRUE)

\* ---- setSimulationMode, onMessage, onDisconnect ---------------------------
setSimulationMode(enabled) ==
  /\ isSimulation' = enabled
  /\ lastOp' = Op("setSimulationMode")
  /\ UNCHANGED <<svc, subs, platform, inflight, connected, everScanned, counts, registered, frames, peripheral>>

\* A registration that keeps the subscriber already in the slot.
onMessage_KeepsFirst(callback) ==
  /\ onMessageCallback' = IF onMessageCallback = 0 THEN callback ELSE onMessageCallback
  /\ registered' = callback
  /\ lastOp' = [Op("onMessage") EXCEPT
                  !.replaced = (onMessageCallback \notin {0, callback})]
  /\ UNCHANGED <<svc, onDisconnectCallback, isSimulation, platform, inflight,
                 connected, everScanned, counts, frames, peripheral>>

onMessage(callback) ==
  /\ onMessageCallback' = callback
  /\ registered' = callback
  /\ lastOp' = [Op("onMessage") EXCEPT
                  !.replaced = (onMessageCallback \notin {0, callback})]
  /\ UNCHANGED <<svc, onDisconnectCallback, isSimulation, platform, inflight,
                 connected, everScanned, counts, frames, peripheral>>

onDisconnect(callback) ==
  /\ onDisconnectCallback' = callback
  /\ lastOp' = Op("onDisconnect")
  /\ UNCHANGED <<svc, onMessageCallback, isSimulation, platform, inflight,
                 connected, everScanned, counts, registered, frames, peripheral>>

\* ---- scan -----------------------------------------------------------------
\* scan(): the simulation branch arms a 1500 ms timer; the real branch opens
\* the platform picker (requestDevice) and suspends.
scan ==
  /\ scanPc = "idle"
  /\ scanPc' = IF isSimulation THEN "timer" ELSE "picker"
  /\ lastOp' = [Op("scan") EXCEPT !.outcome = "pending"]
  /\ UNCHANGED <<svc, subs, isSimulation, platform, connTasks, writes, simSends,
                 simReplies, connected, everScanned, counts, registered, frames, peripheral>>

\* A simulated scan that caches a device as the real one does.
scanTimerFires_CachesDevice ==
  /\ scanPc = "timer"
  /\ scanPc' = "idle"
  /\ device' = 1
  /\ everScanned' = TRUE
  /\ UNCHANGED <<server, rxCharacteristic, txCharacteristic, subs, isSimulation,
                 platform, connTasks, writes, simSends, simReplies, connected,
                 counts, registered, frames, peripheral>>
  /\ lastOp' = [Op("scanResolved") EXCEPT !.outcome = "ok", !.sim = TRUE,
                                          !.found = MOCK_DEVICES,
                                          !.handlesKept = (svc' = svc)]

\* The simulated scan resolves with MOCK_DEVICES; no field is written.
scanTimerFires ==
  /\ scanPc = "timer"
  /\ scanPc' = "idle"
  /\ everScanned' = TRUE
  /\ UNCHANGED <<svc, subs, isSimulation, platform, connTasks, writes, simSends,
                 simReplies, connected, counts, registered, frames, peripheral>>
  /\ lastOp' = [Op("scanResolved") EXCEPT !.outcome = "ok", !.sim = TRUE,
                                          !.found = MOCK_DEVICES,
                                          !.handlesKept = (svc' = svc)]

\* A scan that returns the descriptor without caching the device.
scanResolves_NoCache(d) ==
  /\ scanPc = "picker"
  /\ scanPc' = "idle"
  /\ everScanned' = TRUE
  /\ lastOp' = [Op("scanResolved") EXCEPT !.outcome = "ok", !.sim = FALSE, !.dev = d,
                                          !.found = <<Descriptor(d)>>]
  /\ UNCHANGED <<svc, subs, isSimulation, platform, connTasks, writes, simSends,
                 simReplies, connected, counts, registered, frames, peripheral>>

\* The user picks device d: the device is cached and one descriptor returned.
scanResolves(d) ==
  /\ scanPc = "picker"
  /\ scanPc' = "idle"
  /\ device' = d
  /\ everScanned' = TRUE
  /\ lastOp' = [Op("scanResolved") EXCEPT !.outcome = "ok", !.sim = FALSE, !.dev = d,
                                          !.found = <<Descriptor(d)>>]
  /\ UNCHANGED <<server, rxCharacteristic, txCharacteristic, subs, isSimulation,
                 platform, connTasks, writes, simSends, simReplies, connected,
                 counts, registered, frames, peripheral>>

\* A failed scan that forgets the device cached by an earlier one.
scanRejects_DropsCache ==
  /\ scanPc = "picker"
  /\ scanPc' = "idle"
  /\ device' = 0
  /\ lastOp' = [Op("scanRejected") EXCEPT !.outcome = "rejected", !.sim = FALSE]
  /\ UNCHANGED <<server, rxCharacteristic, txCharacteristic, subs, isSimulation, platform, connTasks, writes, simSends,
                 simReplies, connected, everScanned, counts, registered, frames, peripheral>>

\* requestDevice rejects (picker cancelled, not allowed, nothing found): the
\* error is rethrown.
scanRejects ==
  /\ scanPc = "picker"
  /\ scanPc' = "idle"
  /\ lastOp' = [Op("scanRejected") EXCEPT !.outcome = "rejected", !.sim = FALSE]
  /\ UNCHANGED <<svc, subs, isSimulation, platform, connTasks, writes, simSends,
                 simReplies, connected, everScanned, counts, registered, frames, peripheral>>

\* ---- cleanup, disconnect, link loss ---------------------------------------
\* A cleanup that leaves the cached device in place.
cleanup_KeepsDevice ==
  /\ device' = device /\ server' = 0 /\ rxCharacteristic' = 0 /\ txCharacteristic' = 0
  /\ connected' = FALSE

\* cleanup(): every handle is cleared; the subscriber call of its last line is
\* counted by the caller with SubscriberCalls.
cleanup ==
  /\ device' = 0 /\ server' = 0 /\ rxCharacteristic' = 0 /\ txCharacteristic' = 0
  /\ connected' = FALSE

\* disconnect() closes the link only when the cached device is connected.
GattLive == device # 0 /\ gattConnected[device]

\* Runs of cleanup() one disconnect() makes: device.gatt.disconnect() fires
\* 'gattserverdisconnected' synchronously at every listener registered on the
\* device (each runs handleDisconnect), then disconnect() runs cleanup() itself.
DisconnectRuns == IF GattLive THEN listeners[device] + 1 ELSE 1

\* disconnect(), with ts the connect tasks as the calling step leaves them.
disconnect(ts) ==
  /\ IF GattLive
     THEN /\ gattConnected' = [gattConnected EXCEPT ![device] = FALSE]
          /\ txListeners' = [txListeners EXCEPT ![device] = 0]
          /\ connTasks' = AbortTasks(ts, device)
     ELSE /\ connTasks' = ts
          /\ UNCHANGED <<gattConnected, txListeners>>
  /\ cleanup
  /\ discTotal' = Count(discTotal, SubscriberCalls(DisconnectRuns))

\* The caller calls disconnect().
callDisconnect ==
  /\ lastOp.op = "disconnect" => lastOp.row < MaxRow
  /\ disconnect(connTasks)
  /\ LET again == lastOp.op = "disconnect"
         n == SubscriberCalls(DisconnectRuns) IN
     lastOp' = [Op("disconnect") EXCEPT
                  !.outcome = "ok",
                  !.discCalls = n,
                  !.handlesKept = (svc' = svc),
                  !.row = IF again THEN lastOp.row + 1 ELSE 1,
                  !.rowCalls = IF again THEN lastOp.rowCalls + n ELSE n,
                  !.rowConnected = IF again THEN lastOp.rowConnected ELSE connected]
  /\ UNCHANGED <<subs, isSimulation, listeners, scanPc, writes, simSends,
                 simReplies, everScanned, counting, connTotal, registered, frames, peripheral>>

\* The platform loses the link of device d: it fires 'gattserverdisconnected'
\* at each listener registered on d, and each listener is handleDisconnect.
handleDisconnect(d) ==
  /\ gattConnected[d]
  /\ gattConnected' = [gattConnected EXCEPT ![d] = FALSE]
  /\ txListeners' = [txListeners EXCEPT ![d] = 0]
  /\ connTasks' = AbortTasks(connTasks, d)
  /\ IF listeners[d] > 0
     THEN cleanup
     ELSE UNCHANGED <<svc, connected>>
  /\ discTotal' = Count(discTotal, SubscriberCalls(listeners[d]))
  /\ lastOp' = [Op("linkLoss") EXCEPT
                  !.outcome = "ok",
                  !.onCurrent = (d = device),
                  !.discCalls = SubscriberCalls(listeners[d]),
                  !.handlesKept = (svc' = svc)]
  /\ UNCHANGED <<subs, isSimulation, listeners, scanPc, writes, simSends,
                 simReplies, everScanned, counting, connTotal, registered, frames, peripheral>>

\* ---- connect --------------------------------------------------------------
\* connect() that forgets to look at the cache.
deviceSelected_Unchecked == TRUE

\* connect(): the test of the cached device handle.
deviceSelected == device # 0

\* The record of a connect() call: whether it directly follows the resolution
\* of a scan made in the mode the call runs in, and the device that scan cached.
CallOfConnect ==
  LET follows == lastOp.op = "scanResolved" /\ lastOp.sim = isSimulation IN
  [Op("connect") EXCEPT !.afterScan = follows,
                        !.scanDev = IF follows THEN lastOp.dev ELSE 0]

\* connect(deviceId).  Simulation:
\* a 1000 ms timer.  Real: without a cached device the call throws; otherwise
\* connectToDeviceObject(this.device) runs up to its first await: it
\* registers one more 'gattserverdisconnected' listener on the device and
\* starts device.gatt.connect().  Called with null, connectToDeviceObject
\* throws a TypeError inside its try block, which its catch answers with
\* disconnect() and a rethrow.
connect ==
  /\ IF isSimulation THEN
       /\ connTasks' = Append(connTasks, Task("simTimer", 0))
       /\ lastOp' = [CallOfConnect EXCEPT !.outcome = "pending"]
       /\ UNCHANGED <<svc, platform, connected, discTotal>>
     ELSE IF ~deviceSelected THEN
       /\ lastOp' = [CallOfConnect EXCEPT !.outcome = "deviceNotSelected"]
       /\ UNCHANGED <<svc, platform, connTasks, connected, discTotal>>
     ELSE IF device = 0 THEN
       /\ disconnect(connTasks)
       /\ lastOp' = [CallOfConnect EXCEPT
                       !.outcome = "rejected",
                       !.discCalls = SubscriberCalls(DisconnectRuns),
                       !.handlesKept = (svc' = svc)]
       /\ UNCHANGED listeners
     ELSE
       /\ listeners[device] < MaxListeners
       /\ listeners' = [listeners EXCEPT ![device] = @ + 1]
       /\ connTasks' = Append(connTasks, Task("gattConnect", device))
       /\ lastOp' = [CallOfConnect EXCEPT !.outcome = "pending", !.dev = device]
       /\ UNCHANGED <<svc, gattConnected, txListeners, connected, discTotal>>
  /\ UNCHANGED <<subs, isSimulation, scanPc, writes, simSends, simReplies,
                 everScanned, counting, connTotal, registered, frames, peripheral>>

\* The i-th outstanding connect is suspended at pc, and the link it runs on
\* has not been closed since the step began (a step resolves only then).
Running(i, pc) ==
  /\ i <= Len(connTasks)
  /\ connTasks[i].pc = pc
  /\ ~connTasks[i].aborted

\* A simulated connect that looks at the cache as the real one does, and
\* rejects without a cached device.
connectTimerFires_NeedsDevice(i) ==
  /\ Running(i, "simTimer")
  /\ connTasks' = Settle(connTasks, i)
  /\ connected' = (device # 0)
  /\ connTotal' = connTotal
  /\ lastOp' = IF device # 0
               THEN [Op("connectResolved") EXCEPT !.outcome = "ok", !.sim = TRUE]
               ELSE [Op("connectRejected") EXCEPT !.outcome = "rejected", !.sim = TRUE]
  /\ UNCHANGED <<svc, subs, isSimulation, platform, scanPc, writes, simSends,
                 simReplies, everScanned, counting, discTotal, registered, frames, peripheral>>

\* The simulated connect resolves.
connectTimerFires(i) ==
  /\ Running(i, "simTimer")
  /\ connTasks' = Settle(connTasks, i)
  /\ connected' = TRUE
  /\ connTotal' = Count(connTotal, 1)
  /\ lastOp' = [Op("connectResolved") EXCEPT !.outcome = "ok", !.sim = TRUE]
  /\ UNCHANGED <<svc, subs, isSimulation, platform, scanPc, writes, simSends,
                 simReplies, everScanned, counting, discTotal, registered, frames, peripheral>>

\* Step 1 resolves: this.server is set, getPrimaryService starts.
gattConnectResolves(i) ==
  /\ Running(i, "gattConnect")
  /\ gattConnected' = [gattConnected EXCEPT ![connTasks[i].dev] = TRUE]
  /\ server' = connTasks[i].dev
  /\ connTasks' = [connTasks EXCEPT ![i].pc = "getService"]
  /\ lastOp' = [Op("connectStep") EXCEPT !.step = 1]
  /\ UNCHANGED <<device, rxCharacteristic, txCharacteristic, subs, isSimulation,
                 listeners, txListeners, scanPc, writes, simSends, simReplies,
                 connected, everScanned, counts, registered, frames, peripheral>>

\* Step 2 resolving into the lookup of the inbound characteristic, the
\* outbound one left out.
getPrimaryServiceResolves_SkipsRx(i) ==
  /\ Running(i, "getService")
  /\ connTasks' = [connTasks EXCEPT ![i].pc = "getTx"]
  /\ lastOp' = [Op("connectStep") EXCEPT !.step = 2]
  /\ UNCHANGED <<svc, subs, isSimulation, platform, scanPc, writes, simSends,
                 simReplies, connected, everScanned, counts, registered, frames, peripheral>>

\* Step 2 resolves: the service is a local; getCharacteristic(RX) starts.
getPrimaryServiceResolves(i) ==
  /\ Running(i, "getService")
  /\ connTasks' = [connTasks EXCEPT ![i].pc = "getRx"]
  /\ lastOp' = [Op("connectStep") EXCEPT !.step = 2]
  /\ UNCHANGED <<svc, subs, isSimulation, platform, scanPc, writes, simSends,
                 simReplies, connected, everScanned, counts, registered, frames, peripheral>>

\* Step 3, first half: this.rxCharacteristic is set, getCharacteristic(TX) starts.
getRxCharacteristicResolves(i) ==
  /\ Running(i, "getRx")
  /\ rxCharacteristic' = connTasks[i].dev
  /\ connTasks' = [connTasks EXCEPT ![i].pc = "getTx"]
  /\ lastOp' = [Op("connectStep") EXCEPT !.step = 3]
  /\ UNCHANGED <<device, server, txCharacteristic, subs, isSimulation, platform,
                 scanPc, writes, simSends, simReplies, connected, everScanned,
                 counts, registered, frames, peripheral>>

\* Step 3, second half: this.txCharacteristic is set, startNotifications starts.
getTxCharacteristicResolves(i) ==
  /\ Running(i, "getTx")
  /\ txCharacteristic' = connTasks[i].dev
  /\ connTasks' = [connTasks EXCEPT ![i].pc = "startNotif"]
  /\ lastOp' = [Op("connectStep") EXCEPT !.step = 3]
  /\ UNCHANGED <<device, server, rxCharacteristic, subs, isSimulation, platform,
                 scanPc, writes, simSends, simReplies, connected, everScanned,
                 counts, registered, frames, peripheral>>

\* Step 4 resolves, step 5 runs: the frame handler is registered on whatever
\* this.txCharacteristic holds now (nothing when it is null), and connect
\* resolves.
startNotificationsResolves(i) ==
  /\ Running(i, "startNotif")
  /\ txListeners' = IF txCharacteristic # 0
                    THEN [txListeners EXCEPT ![txCharacteristic] = @ + 1]
                    ELSE txListeners
  /\ connTasks' = Settle(connTasks, i)
  /\ connected' = TRUE
  /\ connTotal' = Count(connTotal, 1)
  /\ lastOp' = [Op("connectResolved") EXCEPT !.outcome = "ok", !.step = 5, !.sim = FALSE]
  /\ UNCHANGED <<svc, subs, isSimulation, gattConnected, listeners, scanPc, writes,
                 simSends, simReplies, everScanned, counting, discTotal, registered, frames, peripheral>>

\* A catch block that opens the GATT session again instead of giving up.
connectCatch_Retries(i) ==
  /\ connTasks' = [connTasks EXCEPT ![i] = Task("gattConnect", @.dev)]
  /\ UNCHANGED <<svc, gattConnected, txListeners, connected, discTotal>>

\* The catch block without its teardown.
connectCatch_NoTeardown(i) ==
  /\ connTasks' = Settle(connTasks, i)
  /\ UNCHANGED <<svc, gattConnected, txListeners, connected, discTotal>>

\* The catch block of connectToDeviceObject: disconnect(), then rethrow.
connectCatch(i) == disconnect(Settle(connTasks, i))

\* The step the i-th connect is suspended on rejects (at any step, for any
\* platform error, and always once the link was closed under it).
connectStepRejects(i) ==
  /\ i <= Len(connTasks)
  /\ connTasks[i].pc \in RealPcs
  /\ connectCatch(i)
  /\ lastOp' = [Op("connectRejected") EXCEPT
                  !.outcome = "rejected",
                  !.afterFailure = TRUE,
                  !.sim = FALSE,
                  !.step = StepOf(connTasks[i].pc),
                  !.discCalls = SubscriberCalls(DisconnectRuns),
                  !.handlesKept = (svc' = svc)]
  /\ UNCHANGED <<subs, isSimulation, listeners, scanPc, writes, simSends,
                 simReplies, everScanned, counting, connTotal, registered, frames, peripheral>>

\* ---- send -----------------------------------------------------------------
SendsOutstanding == simSends + simReplies + Total(writes)

\* send() that writes without looking at the characteristic.
canWrite_Unchecked == TRUE

\* send(): the test of the outbound characteristic.
canWrite == rxCharacteristic # 0

\* send(text).  Simulation: a 300 ms timer.  Real: without the outbound (RX)
\* characteristic the call throws "not connected"; otherwise it starts
\* writeValue on it (on null that is a TypeError thrown to the caller).
send(text) ==
  /\ IF isSimulation THEN
       /\ simSends' = simSends + 1
       /\ lastOp' = [Op("send") EXCEPT !.outcome = "pending", !.text = text]
       /\ UNCHANGED writes
     ELSE IF ~canWrite THEN
       /\ lastOp' = [Op("send") EXCEPT !.outcome = "notConnected", !.text = text]
       /\ UNCHANGED <<simSends, writes>>
     ELSE IF rxCharacteristic = 0 THEN
       /\ lastOp' = [Op("send") EXCEPT !.outcome = "rejected", !.text = text]
       /\ UNCHANGED <<simSends, writes>>
     ELSE
       /\ writes' = [writes EXCEPT ![rxCharacteristic] = @ + 1]
       /\ lastOp' = [Op("send") EXCEPT !.outcome = "pending", !.wrote = TRUE,
                                       !.text = text, !.value = Encode(text),
                                       !.dev = rxCharacteristic]
       /\ UNCHANGED simSends
  /\ UNCHANGED <<svc, subs, isSimulation, platform, scanPc, connTasks, simReplies,
                 connected, everScanned, counts, registered, frames, peripheral>>

\* A 300 ms timer that schedules two replies where it schedules one.
sendTimerFires_TwoReplies(reply) ==
  /\ simSends > 0
  /\ reply => onMessageCallback # 0
  /\ simSends' = simSends - 1
  /\ simReplies' = IF reply THEN simReplies + 2 ELSE simReplies
  /\ lastOp' = [Op("sendResolved") EXCEPT !.outcome = "ok", !.sim = TRUE]
  /\ UNCHANGED <<svc, subs, isSimulation, platform, scanPc, connTasks, writes,
                 connected, everScanned, counts, registered, frames, peripheral>>

\* The 300 ms timer of a simulated send fires: with probability 0.7, and only
\* when a message subscriber is registered, a reply is scheduled 2000 ms
\* later; the send resolves either way.
sendTimerFires(reply) ==
  /\ simSends > 0
  /\ reply => onMessageCallback # 0
  /\ simSends' = simSends - 1
  /\ simReplies' = IF reply THEN simReplies + 1 ELSE simReplies
  /\ lastOp' = [Op("sendResolved") EXCEPT !.outcome = "ok", !.sim = TRUE]
  /\ UNCHANGED <<svc, subs, isSimulation, platform, scanPc, connTasks, writes,
                 connected, everScanned, counts, registered, frames, peripheral>>

\* The 2000 ms timer fires: the message subscriber gets one of MOCK_RESPONSES,
\* picked at random now.
replyTimerFires ==
  /\ simReplies > 0
  /\ simReplies' = simReplies - 1
  /\ \E r \in DOMAIN MOCK_RESPONSES :
       lastOp' = [Op("simReply") EXCEPT !.msgCalls = 1, !.sim = TRUE,
                                       !.to = onMessageCallback,
                                       !.reply = MOCK_RESPONSES[r]]
  /\ UNCHANGED <<svc, subs, isSimulation, platform, scanPc, connTasks, writes,
                 simSends, connected, everScanned, counts, registered, frames, peripheral>>

\* writeValue on device d's RX characteristic resolves: send resolves.
writeValueResolves(d) ==
  /\ writes[d] > 0
  /\ gattConnected[d]
  /\ writes' = [writes EXCEPT ![d] = @ - 1]
  /\ lastOp' = [Op("sendResolved") EXCEPT !.outcome = "ok", !.sim = FALSE, !.dev = d]
  /\ UNCHANGED <<svc, subs, isSimulation, platform, scanPc, connTasks, simSends,
                 simReplies, connected, everScanned, counts, registered, frames, peripheral>>

\* writeValue rejects (link lost, platform error): send rejects.
writeValueRejects(d) ==
  /\ writes[d] > 0
  /\ writes' = [writes EXCEPT ![d] = @ - 1]
  /\ lastOp' = [Op("sendRejected") EXCEPT !.outcome = "rejected", !.sim = FALSE]
  /\ UNCHANGED <<svc, subs, isSimulation, platform, scanPc, connTasks, simSends,
                 simReplies, connected, everScanned, counts, registered, frames, peripheral>>

\* ---- inbound notifications ------------------------------------------------
\* The peer notifies value on device d's TX characteristic: every frame
\* handler registered on it runs handleCharacteristicValueChanged, which
\* decodes the value and forwards the text to the message subscriber when one
\* is registered.  Where notifications are logged, the notification gets the
\* next number and each invocation of the subscriber is logged with it.
handleCharacteristicValueChanged(d, value) ==
  /\ gattConnected[d]
  /\ txListeners[d] > 0
  /\ framing => emitted < MaxFrames
  /\ LET n == IF onMessageCallback # 0 THEN txListeners[d] ELSE 0 IN
     /\ emitted' = IF framing THEN emitted + 1 ELSE emitted
     /\ delivered' = IF framing
                     THEN delivered \o [k \in 1..n |-> emitted + 1]
                     ELSE delivered
     /\ lastOp' = [Op("notify") EXCEPT
                     !.msgCalls = n,
                     !.value = value,
                     !.text = Decode(value),
                     !.to = onMessageCallback]
  /\ UNCHANGED <<svc, subs, isSimulation, platform, inflight, connected,
                 everScanned, counts, registered, framing, peripheral>>

\* ---- the user interface: App, DeviceScanner, ChatScreen -------------------
\* React state is modelled by the value the next render sees.  A component
\* that unmounts loses its state, and a state setter called for it afterwards
\* does nothing; the calls it left pending go on.  The code that runs from the
\* resolution of a promise to the next await runs in the step of the
\* resolution; where that code calls into the service again, the call is the
\* next step and nothing comes between the two (UiBusy).

\* The names of the errors requestDevice rejects with.
ErrorNames == {"NotFoundError", "SecurityError", "NotAllowedError", "NetworkError"}

\* startScan's catch: the message shown for an error name.
ScanErrorText(name) ==
  CASE name = "NotFoundError" -> "Search cancelled (or timed out)"
    [] name = "SecurityError" -> "HTTPS or localhost needed"
    [] name = "NotAllowedError" -> "Access denied"
    [] OTHER -> "Error: message"

\* startScan's map: a found device as the scanner lists it.
Formatted(d) ==
  [id |-> d.id,
   name |-> IF d.name # "" THEN d.name ELSE "Unknown device",
   rssi |-> d.rssi,
   status |-> "available"]

\* A startScan that takes an empty list for a selection.
startScanResolved_NoEmptyCheck(sc, found) ==
  [sc EXCEPT !.isScanning = TRUE,
             !.devices = [k \in DOMAIN found |-> Formatted(found[k])]]

\* startScan after scan() resolved with found: the list is formatted; when it
\* is not empty its first entry is connected to (the handleConnect call is
\* due), otherwise an error is shown and the indicator is turned off.
startScanResolved(sc, found) ==
  LET formattedDevices == [k \in DOMAIN found |-> Formatted(found[k])] IN
  IF Len(formattedDevices) > 0
  THEN [sc EXCEPT !.isScanning = TRUE,
                  !.devices = formattedDevices,
                  !.connectDue = <<formattedDevices[1]>>]
  ELSE [sc EXCEPT !.isScanning = FALSE,
                  !.error = "No devices found"]

\* startScan's catch: the indicator is turned off and the error is shown.
startScanRejected(sc, name) ==
  [sc EXCEPT !.isScanning = FALSE, !.error = ScanErrorText(name)]

\* The scanner's list with the entry of device dev given status st.
WithStatus(devs, dev, st) ==
  [k \in DOMAIN devs |->
     IF devs[k].id = dev.id THEN [devs[k] EXCEPT !.status = st] ELSE devs[k]]

\* The pending calls ws of a component that unmounts.
Stale(ws) == [k \in DOMAIN ws |-> [ws[k] EXCEPT !.stale = TRUE]]

\* A handleDisconnect that goes back to the scanner with the device kept.
App_handleDisconnect_KeepsDevice ==
  [currentView |-> "SCANNER", activeDevice |-> app.activeDevice]

\* App.handleDisconnect, reached through the disconnect subscriber
\* ChatScreen registered.
App_handleDisconnect == [currentView |-> "SCANNER", activeDevice |-> NoDevice]

\* App.handleDeviceConnect.
handleDeviceConnect(dev) == [currentView |-> "CHAT", activeDevice |-> dev.id]

\* ChatScreen unmounts: its messages are gone, no effect is due.
ChatUnmounts == [chat EXCEPT !.effect = "none", !.messages = <<>>]

\* The disconnect subscriber is invoked n times in this step: the view goes
\* back to the scanner.
SubscriberInvoked(n) ==
  /\ app' = IF n > 0 THEN App_handleDisconnect ELSE app
  /\ chat' = IF n > 0 /\ app.currentView = "CHAT" THEN ChatUnmounts ELSE chat

\* Something between two steps that nothing can come between is to be done.
UiBusy == scanner.connectDue # <<>> \/ chat.effect = "half"

\* The toggle of the scanner view.
toggleSimulation ==
  /\ app.currentView = "SCANNER"
  /\ setSimulationMode(~isSimulation)
  /\ uiOp' = [op |-> "toggleSimulation", id |-> 0, inst |-> 0]
  /\ UNCHANGED <<app, scanner, chat, now>>

\* Date.now() moves on.
Tick ==
  /\ now < MaxClock
  /\ now' = now + 1
  /\ uiOp' = [op |-> "tick", id |-> 0, inst |-> 0]
  /\ lastOp' = Op("tick")
  /\ UNCHANGED <<svc, subs, isSimulation, platform, inflight, connected,
                 everScanned, counts, registered, frames, peripheral, app, scanner, chat>>

\* A startScan that suspends before it calls scan(): the click only resets
\* the view.
startScan_AfterSuspension ==
  /\ app.currentView = "SCANNER"
  /\ ~scanner.isScanning
  /\ scanner' = [scanner EXCEPT !.error = "", !.devices = <<>>]
  /\ uiOp' = [op |-> "startScan", id |-> 0, inst |-> 0]
  /\ lastOp' = Op("click")
  /\ UNCHANGED <<svc, subs, isSimulation, platform, inflight, connected,
                 everScanned, counts, registered, frames, peripheral, app, chat, now>>

\* The scan button (disabled while isScanning): startScan up to its await.
startScan ==
  /\ app.currentView = "SCANNER"
  /\ ~scanner.isScanning
  /\ chat.instance < MaxMounts
  /\ \A d \in Devices : listeners[d] < MaxListeners
  /\ scan
  /\ scanner' = [scanner EXCEPT !.error = "", !.devices = <<>>]
  /\ uiOp' = [op |-> "startScan", id |-> 0, inst |-> 0]
  /\ UNCHANGED <<app, chat, now>>

\* The simulated scan resolves and startScan goes on.
startScanAfterTimer ==
  /\ scanTimerFires
  /\ scanner' = startScanResolved(scanner, MOCK_DEVICES)
  /\ uiOp' = [op |-> "scanHandled", id |-> 0, inst |-> 0]
  /\ UNCHANGED <<app, chat, now>>

\* The user picks device d and startScan goes on.
startScanAfterPicker(d) ==
  /\ scanResolves(d)
  /\ scanner' = startScanResolved(scanner, <<Descriptor(d)>>)
  /\ uiOp' = [op |-> "scanHandled", id |-> 0, inst |-> 0]
  /\ UNCHANGED <<app, chat, now>>

\* requestDevice rejects with an error of the given name: startScan's catch.
startScanCatch(name) ==
  /\ scanRejects
  /\ scanner' = startScanRejected(scanner, name)
  /\ uiOp' = [op |-> "scanFailed", id |-> 0, inst |-> 0]
  /\ UNCHANGED <<app, chat, now>>

\* handleConnect(device) up to its await, for the device startScan selected;
\* when connect() throws at once, its catch.
handleConnect ==
  /\ scanner.connectDue # <<>>
  /\ connect
  /\ LET dev == scanner.connectDue[1] IN
     scanner' =
       IF lastOp'.outcome = "pending"
       THEN [scanner EXCEPT !.connectDue = <<>>,
                            !.error = "",
                            !.devices = WithStatus(@, dev, "connecting"),
                            !.waiters = Append(@, [dev |-> dev, stale |-> FALSE])]
       ELSE [scanner EXCEPT !.connectDue = <<>>,
                            !.error = "Connection error: message",
                            !.devices = WithStatus(@, dev, "error")]
  /\ uiOp' = [op |-> "handleConnect", id |-> 0, inst |-> 0]
  /\ UNCHANGED <<app, chat, now>>

\* A click on the k-th row of the scanner's list: handleConnect(device) for
\* a row whose status is 'available'.
rowClicked(k) ==
  /\ app.currentView = "SCANNER"
  /\ k \in DOMAIN scanner.devices
  /\ scanner.devices[k].status = "available"
  /\ Len(connTasks) < MaxConnects
  /\ connect
  /\ LET dev == scanner.devices[k] IN
     scanner' =
       IF lastOp'.outcome = "pending"
       THEN [scanner EXCEPT !.error = "",
                            !.devices = WithStatus(@, dev, "connecting"),
                            !.waiters = Append(@, [dev |-> dev, stale |-> FALSE])]
       ELSE [scanner EXCEPT !.error = "Connection error: message",
                            !.devices = WithStatus(@, dev, "error")]
  /\ uiOp' = [op |-> "rowClicked", id |-> 0, inst |-> 0]
  /\ UNCHANGED <<app, chat, now>>

\* handleConnect after connect() resolved: onConnect(device), which is
\* App.handleDeviceConnect.  The scanner view unmounts and the chat view
\* mounts, its effect due.
handleConnectResolved(i) ==
  /\ app' = handleDeviceConnect(scanner.waiters[i].dev)
  /\ scanner' = ScannerMounts(Stale(Settle(scanner.waiters, i)))
  /\ chat' = IF app.currentView = "CHAT"
             THEN [chat EXCEPT !.effect = "due"]
             ELSE [chat EXCEPT !.instance = @ + 1, !.effect = "due", !.messages = <<>>]
  /\ uiOp' = [op |-> "connected", id |-> 0, inst |-> 0]
  /\ UNCHANGED now

handleConnectAfterTimer(i) ==
  /\ connectTimerFires(i)
  /\ handleConnectResolved(i)

handleConnectAfterNotifications(i) ==
  /\ startNotificationsResolves(i)
  /\ handleConnectResolved(i)

\* A step of connect() rejects: connectToDeviceObject's catch calls
\* disconnect(), which invokes the disconnect subscriber, and handleConnect's
\* catch marks the device and shows the error.
handleConnectCatch(i) ==
  /\ connectStepRejects(i)
  /\ SubscriberInvoked(SubscriberCalls(DisconnectRuns))
  /\ LET w == scanner.waiters[i] IN
     scanner' = IF w.stale
                THEN [scanner EXCEPT !.waiters = Settle(@, i)]
                ELSE [scanner EXCEPT !.waiters = Settle(@, i),
                                     !.error = "Connection error: message",
                                     !.devices = WithStatus(@, w.dev, "error")]
  /\ uiOp' = [op |-> "connectFailed", id |-> 0, inst |-> 0]
  /\ UNCHANGED now

\* A step of connect() resolves into the next.
handleConnectWaits(i) ==
  /\ \/ gattConnectResolves(i)
     \/ getPrimaryServiceResolves(i)
     \/ getRxCharacteristicResolves(i)
     \/ getTxCharacteristicResolves(i)
  /\ uiOp' = [op |-> "none", id |-> 0, inst |-> 0]
  /\ UNCHANGED <<app, scanner, chat, now>>

\* The platform loses the link of device d.
linkLost(d) ==
  /\ handleDisconnect(d)
  /\ SubscriberInvoked(SubscriberCalls(listeners[d]))
  /\ uiOp' = [op |-> "linkLost", id |-> 0, inst |-> 0]
  /\ UNCHANGED <<scanner, now>>

\* The disconnect button of the chat view.
disconnectClicked ==
  /\ app.currentView = "CHAT"
  /\ chat.effect = "done"
  /\ callDisconnect
  /\ SubscriberInvoked(SubscriberCalls(DisconnectRuns))
  /\ uiOp' = [op |-> "disconnectClicked", id |-> 0, inst |-> 0]
  /\ UNCHANGED <<scanner, now>>

\* The identifier of the system message, of a local message made at time t
\* and of the r-th inbound message: 'sys-1', Date.now().toString(), and
\* Date.now().toString() + Math.random().toString(), whose random part is
\* taken to differ from every one drawn before.
SystemId == [kind |-> "system", t |-> 0, r |-> 1]
LocalId(t) == [kind |-> "me", t |-> t, r |-> 0]
PartnerId(t, r) == [kind |-> "partner", t |-> t, r |-> r]

\* ChatScreen's effect, first part: the system message replaces the log and
\* the message subscriber is registered.
chatEffect ==
  /\ app.currentView = "CHAT"
  /\ chat.effect = "due"
  /\ onMessage(chat.instance)
  /\ chat' = [chat EXCEPT
                !.effect = "half",
                !.messages = << [id |-> SystemId, text |-> <<"Connected">>,
                                 sender |-> "system", isPending |-> FALSE] >>]
  /\ uiOp' = [op |-> "chatEffect", id |-> 0, inst |-> 0]
  /\ UNCHANGED <<app, scanner, now>>

\* The browser fires 'beforeinstallprompt': App's listener sets deferredPrompt
\* and showInstallBtn, App renders again and hands the chat view a new
\* onDisconnect function, a dependency of ChatScreen's effect, which is due
\* again.  In the scanner view only the banner appears.
beforeinstallprompt ==
  /\ chat' = IF app.currentView = "CHAT" THEN [chat EXCEPT !.effect = "due"] ELSE chat
  /\ uiOp' = [op |-> "beforeinstallprompt", id |-> 0, inst |-> 0]
  /\ lastOp' = Op("beforeinstallprompt")
  /\ UNCHANGED <<svc, subs, isSimulation, platform, inflight, connected,
                 everScanned, counts, registered, frames, peripheral, app, scanner, now>>

\* ChatScreen's effect, second part: the disconnect subscriber is registered.
chatEffectSubscribes ==
  /\ chat.effect = "half"
  /\ onDisconnect(chat.instance)
  /\ chat' = [chat EXCEPT !.effect = "done"]
  /\ uiOp' = [op |-> "chatEffect", id |-> 0, inst |-> 0]
  /\ UNCHANGED <<app, scanner, now>>

\* A completion that leaves the log as it is.
MarkSent_Nothing(msgs, id) == msgs

\* The log with the messages of identifier id marked as sent, or as failed.
MarkSent(msgs, id) ==
  [k \in DOMAIN msgs |->
     IF msgs[k].id = id THEN [msgs[k] EXCEPT !.isPending = FALSE] ELSE msgs[k]]

MarkFailed(msgs, id) ==
  [k \in DOMAIN msgs |->
     IF msgs[k].id = id
     THEN [msgs[k] EXCEPT !.text = @ \o <<" (error)">>, !.isPending = FALSE]
     ELSE msgs[k]]

\* handleSend up to its await, for a text that is not blank; when send()
\* throws at once, its catch.
handleSend(text) ==
  /\ app.currentView = "CHAT"
  /\ chat.effect = "done"
  /\ Len(chat.messages) < MaxMessages
  /\ simSends + simReplies + Total(writes) < MaxChatSends
  /\ send(text)
  /\ LET tempId == LocalId(now)
         newMsg == [id |-> tempId, text |-> text, sender |-> "me", isPending |-> TRUE]
         added == Append(chat.messages, newMsg)
     IN chat' =
          IF lastOp'.outcome = "pending"
          THEN [chat EXCEPT
                  !.messages = added,
                  !.waiters = Append(@, [id |-> tempId, inst |-> chat.instance,
                                         via |-> lastOp'.dev])]
          ELSE [chat EXCEPT !.messages = MarkFailed(added, tempId)]
  /\ uiOp' = [op |-> "handleSend", id |-> LocalId(now), inst |-> chat.instance]
  /\ UNCHANGED <<app, scanner, now>>

\* The oldest handleSend call waiting on the simulation (via = 0) or on a
\* write to device via.
FirstWaiter(via) ==
  CHOOSE i \in DOMAIN chat.waiters :
    /\ chat.waiters[i].via = via
    /\ \A j \in 1..(i - 1) : chat.waiters[j].via # via

\* handleSend after send() settled: the messages with its identifier are
\* marked, in the log of the ChatScreen that made the call.
handleSendSettled(via, ok) ==
  /\ \E i \in DOMAIN chat.waiters : chat.waiters[i].via = via
  /\ LET i == FirstWaiter(via)
         w == chat.waiters[i]
     IN /\ chat' = [chat EXCEPT
                      !.waiters = Settle(@, i),
                      !.messages = IF w.inst # chat.instance THEN @
                                   ELSE IF ok THEN MarkSent(@, w.id)
                                   ELSE MarkFailed(@, w.id)]
        /\ uiOp' = [op |-> IF ok THEN "sent" ELSE "sendFailed", id |-> w.id,
                    inst |-> w.inst]
  /\ UNCHANGED <<app, scanner, now>>

handleSendAfterTimer(reply) ==
  /\ sendTimerFires(reply)
  /\ handleSendSettled(0, TRUE)

handleSendAfterWrite(d) ==
  /\ writeValueResolves(d)
  /\ handleSendSettled(d, TRUE)

handleSendCatch(d) ==
  /\ writeValueRejects(d)
  /\ handleSendSettled(d, FALSE)

\* The message subscriber is invoked n times with text: the ChatScreen whose
\* effect registered it appends one inbound message per invocation.
messageReceived(n, text) ==
  /\ Len(chat.messages) + n <= MaxMessages
  /\ chat' = IF lastOp'.to = chat.instance /\ app.currentView = "CHAT"
             THEN [chat EXCEPT !.messages =
                     @ \o [k \in 1..n |->
                             [id |-> PartnerId(now, Len(chat.messages) + k),
                              text |-> text, sender |-> "partner",
                              isPending |-> FALSE]]]
             ELSE chat
  /\ uiOp' = [op |-> "messageReceived", id |-> 0, inst |-> 0]
  /\ UNCHANGED <<app, scanner, now>>

replyReceived ==
  /\ replyTimerFires
  /\ messageReceived(lastOp'.msgCalls, <<lastOp'.reply>>)

notificationReceived(d, value) ==
  /\ handleCharacteristicValueChanged(d, value)
  /\ messageReceived(lastOp'.msgCalls, lastOp'.text)

\* ---- the reference peripheral (ubuntu-server.js) ---------------------------
\* peripheral.updateValueCallback is the callback of the client subscribed to
\* TX (0: null; subscriptions are numbered), timers the setTimeout callbacks
\* that are armed, written the data of the write requests, acks the write
\* requests answered (by number), out the
\* number of notifications handed to updateValueCallback for each write request
\* (for 0: greetings), last the step just taken.

\* The UTF-8 bytes of the words before the quoted message in the reply, and
\* of the quotation mark after it.
ReplyPrefix ==
  <<208, 146, 209, 139, 32, 209, 129, 208, 186, 208, 176, 208, 183, 208, 176,
    208, 187, 208, 184, 58, 32, 34>>
ReplySuffix == <<34>>

\* The greeting sent after a subscription.
Greeting == <<"greeting">>

\* What a client writes on RX: the UTF-8 bytes of a text (the empty text,
\* one of one byte, one of several bytes with a byte order mark in front).
WrittenData == {Utf8Of(t) : t \in {<<>>, <<"a">>, <<"U+FEFF", "e-acute">>}}

\* Whether the bytes b hold the bytes p.
Contains(b, p) ==
  \E k \in 0..(Len(b) - Len(p)) : SubSeq(b, k + 1, k + Len(p)) = p

\* Buffer.from(text, 'utf-8') of the reply made for message.
ReplyData(message) == ReplyPrefix \o Encode(message) \o ReplySuffix

\* Everything but the peripheral.
central == <<svc, subs, isSimulation, platform, inflight, connected, everScanned,
             counts, registered, frames, lastOp, ui>>

\* TxCharacteristic.onSubscribe: the callback is kept and the greeting is
\* armed (1000 ms).
onSubscribe ==
  /\ peripheral.subscriptions < MaxSubscriptions
  /\ peripheral' =
       [peripheral EXCEPT
          !.subscriptions = @ + 1,
          !.updateValueCallback = peripheral.subscriptions + 1,
          !.timers = Append(@, [kind |-> "greeting", n |-> 0, data |-> Greeting]),
          !.last = PeripheralStep("subscribe", 0, peripheral.updateValueCallback, <<>>)]
  /\ UNCHANGED central

\* TxCharacteristic.onUnsubscribe.
onUnsubscribe ==
  /\ peripheral.updateValueCallback # 0
  /\ peripheral' =
       [peripheral EXCEPT
          !.updateValueCallback = 0,
          !.last = PeripheralStep("unsubscribe", 0, peripheral.updateValueCallback, <<>>)]
  /\ UNCHANGED central

\* An onWriteRequest that arms the reply and leaves the request unanswered.
onWriteRequest_NoAck(data) ==
  /\ peripheral.writes < MaxWrites
  /\ LET message == DecodeFrom(data) IN
     peripheral' =
       [peripheral EXCEPT
          !.writes = @ + 1,
          !.written = Append(@, data),
          !.timers = Append(@, [kind |-> "reply", n |-> peripheral.writes + 1,
                                data |-> ReplyData(message)]),
          !.last = PeripheralStep("write", peripheral.writes + 1,
                                  peripheral.updateValueCallback, <<>>)]
  /\ UNCHANGED central

\* RxCharacteristic.onWriteRequest: the data are read as UTF-8, the request
\* is answered with RESULT_SUCCESS, and the reply is armed (500 ms).
onWriteRequest(data) ==
  /\ peripheral.writes < MaxWrites
  /\ LET message == DecodeFrom(data) IN
     peripheral' =
       [peripheral EXCEPT
          !.writes = @ + 1,
          !.written = Append(@, data),
          !.acks = Append(@, peripheral.writes + 1),
          !.timers = Append(@, [kind |-> "reply", n |-> peripheral.writes + 1,
                                data |-> ReplyData(message)]),
          !.last = PeripheralStep("write", peripheral.writes + 1,
                                  peripheral.updateValueCallback, <<>>)]
  /\ UNCHANGED central

\* The i-th timer is the oldest of its kind (timers of one delay fire in the
\* order they were armed).
OldestOfKind(i) ==
  \A j \in 1..(i - 1) : peripheral.timers[j].kind # peripheral.timers[i].kind

\* A timer fires and calls sendMessage: with a subscriber the data are handed
\* to updateValueCallback, with none nothing is done.
timerFires(i) ==
  /\ i \in DOMAIN peripheral.timers
  /\ OldestOfKind(i)
  /\ LET t == peripheral.timers[i] IN
     peripheral' =
       [peripheral EXCEPT
          !.timers = Settle(@, i),
          !.out[t.n] = IF peripheral.updateValueCallback # 0 THEN @ + 1 ELSE @,
          !.last = PeripheralStep(t.kind, t.n, peripheral.updateValueCallback,
                                  IF peripheral.updateValueCallback # 0
                                  THEN t.data ELSE <<>>)]
  /\ UNCHANGED central

\* ---- specifications -------------------------------------------------------
\* The steps of connect() calls that are outstanding.
ConnectSteps ==
  \/ \E i \in 1..Len(connTasks) : connectTimerFires(i) /\ UNCHANGED ui
  \/ \E i \in 1..Len(connTasks) : gattConnectResolves(i) /\ UNCHANGED ui
  \/ \E i \in 1..Len(connTasks) : getPrimaryServiceResolves(i) /\ UNCHANGED ui
  \/ \E i \in 1..Len(connTasks) : getRxCharacteristicResolves(i) /\ UNCHANGED ui
  \/ \E i \in 1..Len(connTasks) : getTxCharacteristicResolves(i) /\ UNCHANGED ui
  \/ \E i \in 1..Len(connTasks) : startNotificationsResolves(i) /\ UNCHANGED ui
  \/ \E i \in 1..Len(connTasks) : connectStepRejects(i) /\ UNCHANGED ui

\* The session lifecycle: every operation but send and the inbound path, for
\* a caller that has one connect outstanding at a time (spec 5: a second
\* connect while one is in flight is undefined).
Next ==
  \/ \E b \in BOOLEAN : setSimulationMode(b) /\ UNCHANGED ui
  \/ \E c \in Callbacks : onDisconnect(c) /\ UNCHANGED ui
  \/ scan /\ UNCHANGED ui
  \/ scanTimerFires /\ UNCHANGED ui
  \/ \E d \in 1..DevicesInRange : scanResolves(d) /\ UNCHANGED ui
  \/ scanRejects /\ UNCHANGED ui
  \/ (~ConnectInFlight /\ connect) /\ UNCHANGED ui
  \/ ConnectSteps
  \/ callDisconnect /\ UNCHANGED ui
  \/ \E d \in Devices : handleDisconnect(d) /\ UNCHANGED ui

Spec == Init /\ [][Next]_vars

\* The lifecycle with the totals kept.
SpecCount == InitCount /\ [][Next]_vars

\* The lifecycle with one peer in range, together with send, the simulated
\* replies and the inbound path.
NextSend ==
  \/ \E b \in BOOLEAN : setSimulationMode(b) /\ UNCHANGED ui
  \/ \E c \in Callbacks : onMessage(c) /\ UNCHANGED ui
  \/ \E c \in Callbacks : onDisconnect(c) /\ UNCHANGED ui
  \/ scan /\ UNCHANGED ui
  \/ scanTimerFires /\ UNCHANGED ui
  \/ scanResolves(1) /\ UNCHANGED ui
  \/ scanRejects /\ UNCHANGED ui
  \/ (~ConnectInFlight /\ connect) /\ UNCHANGED ui
  \/ ConnectSteps
  \/ callDisconnect /\ UNCHANGED ui
  \/ \E d \in Devices : handleDisconnect(d) /\ UNCHANGED ui
  \/ (SendsOutstanding < MaxSends /\ send(Hello)) /\ UNCHANGED ui
  \/ \E r \in BOOLEAN : sendTimerFires(r) /\ UNCHANGED ui
  \/ replyTimerFires /\ UNCHANGED ui
  \/ \E d \in Devices : writeValueResolves(d) /\ UNCHANGED ui
  \/ \E d \in Devices : writeValueRejects(d) /\ UNCHANGED ui
  \/ \E d \in Devices : handleCharacteristicValueChanged(d, Utf8Of(Hello)) /\ UNCHANGED ui

SpecSend == Init /\ [][NextSend]_vars

\* Scanning and connecting with every platform device in range of the picker,
\* in the mode the service starts in, for a caller that registers no
\* disconnect subscriber and whose sessions end by link loss.
NextPick ==
  \/ scan /\ UNCHANGED ui
  \/ scanTimerFires /\ UNCHANGED ui
  \/ \E d \in Devices : scanResolves(d) /\ UNCHANGED ui
  \/ scanRejects /\ UNCHANGED ui
  \/ (~ConnectInFlight /\ connect) /\ UNCHANGED ui
  \/ ConnectSteps
  \/ \E d \in Devices : handleDisconnect(d) /\ UNCHANGED ui

SpecPick == Init /\ [][NextPick]_vars

\* One peer and the frames exchanged with it: sessions on the device the
\* picker returns, ended by link loss, texts sent and texts notified by the
\* peer, with the notifications logged.
NextFrames ==
  \/ \E c \in Subscribers : onMessage(c) /\ UNCHANGED ui
  \/ scan /\ UNCHANGED ui
  \/ scanTimerFires /\ UNCHANGED ui
  \/ scanResolves(1) /\ UNCHANGED ui
  \/ (~ConnectInFlight /\ connect) /\ UNCHANGED ui
  \/ ConnectSteps
  \/ \E d \in Devices : handleDisconnect(d) /\ UNCHANGED ui
  \/ (SendsOutstanding < MaxSends /\ \E t \in Texts : send(t)) /\ UNCHANGED ui
  \/ \E r \in BOOLEAN : sendTimerFires(r) /\ UNCHANGED ui
  \/ replyTimerFires /\ UNCHANGED ui
  \/ \E d \in Devices : writeValueResolves(d) /\ UNCHANGED ui
  \/ \E d \in Devices : writeValueRejects(d) /\ UNCHANGED ui
  \/ \E d \in Devices, t \in PeerTexts : handleCharacteristicValueChanged(d, Utf8Of(t)) /\ UNCHANGED ui

SpecFrames == InitFrames /\ [][NextFrames]_vars

\* A caller that does not wait for one connect() to settle before it calls
\* the next: up to MaxConnects calls are outstanding at once.
NextOverlap ==
  \/ scan /\ UNCHANGED ui
  \/ scanTimerFires /\ UNCHANGED ui
  \/ scanResolves(1) /\ UNCHANGED ui
  \/ (Len(connTasks) < MaxConnects /\ connect) /\ UNCHANGED ui
  \/ ConnectSteps
  \/ \E d \in Devices : handleDisconnect(d) /\ UNCHANGED ui

SpecOverlap == Init /\ [][NextOverlap]_vars

\* The simulated transport among the rest: the mode is switched at will, a
\* message subscriber is registered, scans, connects and sends are made in
\* either mode, and what was started in real mode goes on (or fails) beside
\* the timers of the simulation.
NextSim ==
  \/ \E b \in BOOLEAN : setSimulationMode(b) /\ UNCHANGED ui
  \/ \E c \in Callbacks : onMessage(c) /\ UNCHANGED ui
  \/ scan /\ UNCHANGED ui
  \/ scanTimerFires /\ UNCHANGED ui
  \/ scanResolves(1) /\ UNCHANGED ui
  \/ scanRejects /\ UNCHANGED ui
  \/ (~ConnectInFlight /\ connect) /\ UNCHANGED ui
  \/ ConnectSteps
  \/ \E d \in Devices : handleDisconnect(d) /\ UNCHANGED ui
  \/ (SendsOutstanding < MaxSends /\ send(Hello)) /\ UNCHANGED ui
  \/ \E r \in BOOLEAN : sendTimerFires(r) /\ UNCHANGED ui
  \/ replyTimerFires /\ UNCHANGED ui
  \/ \E d \in Devices : writeValueResolves(d) /\ UNCHANGED ui
  \/ \E d \in Devices : writeValueRejects(d) /\ UNCHANGED ui

SpecSim == Init /\ [][NextSim]_vars

\* The same with the scheduling of the simulation's timers: a timer that is
\* armed fires (setTimeout).
SpecSimLive ==
  /\ SpecSim
  /\ WF_vars(scanTimerFires /\ UNCHANGED ui)
  /\ WF_vars(\E i \in 1..MaxConnects : connectTimerFires(i) /\ UNCHANGED ui)
  /\ WF_vars(\E r \in BOOLEAN : sendTimerFires(r) /\ UNCHANGED ui)
  /\ WF_vars(replyTimerFires /\ UNCHANGED ui)

\* Sends and their fabricated replies with no session: the mode is switched
\* at will, a message subscriber is registered, scans are made, and sends
\* are made (in real mode they are refused).
NextReplies ==
  \/ \E b \in BOOLEAN : setSimulationMode(b) /\ UNCHANGED ui
  \/ \E c \in Callbacks : onMessage(c) /\ UNCHANGED ui
  \/ scan /\ UNCHANGED ui
  \/ scanTimerFires /\ UNCHANGED ui
  \/ scanResolves(1) /\ UNCHANGED ui
  \/ scanRejects /\ UNCHANGED ui
  \/ (SendsOutstanding < MaxSends /\ send(Hello)) /\ UNCHANGED ui
  \/ \E r \in BOOLEAN : sendTimerFires(r) /\ UNCHANGED ui
  \/ replyTimerFires /\ UNCHANGED ui

\* The scheduling of its timers: a timer that is armed fires, and the test
\* Math.random() > 0.3 of a send's timer does not come out false for ever.
SpecReplies ==
  /\ Init /\ [][NextReplies]_vars
  /\ WF_vars(\E r \in BOOLEAN : sendTimerFires(r) /\ UNCHANGED ui)
  /\ SF_vars(sendTimerFires(TRUE) /\ UNCHANGED ui)
  /\ WF_vars(replyTimerFires /\ UNCHANGED ui)

\* The application: what the user does in the scanner view and in the chat
\* view, and what the platform, the peer and the timers do meanwhile.
NextUi ==
  \/ handleConnect
  \/ chatEffectSubscribes
  \/ (~UiBusy /\ toggleSimulation)
  \/ (~UiBusy /\ Tick)
  \/ (~UiBusy /\ startScan)
  \/ (~UiBusy /\ startScanAfterTimer)
  \/ (~UiBusy /\ startScanAfterPicker(1))
  \/ (~UiBusy /\ \E e \in ErrorNames : startScanCatch(e))
  \/ (~UiBusy /\ \E i \in 1..Len(connTasks) : handleConnectWaits(i))
  \/ (~UiBusy /\ \E i \in 1..Len(connTasks) : handleConnectAfterTimer(i))
  \/ (~UiBusy /\ \E i \in 1..Len(connTasks) : handleConnectAfterNotifications(i))
  \/ (~UiBusy /\ \E i \in 1..Len(connTasks) : handleConnectCatch(i))
  \/ (~UiBusy /\ \E d \in Devices : linkLost(d))
  \/ (~UiBusy /\ disconnectClicked)
  \/ (~UiBusy /\ chatEffect)
  \/ (~UiBusy /\ handleSend(Hello))
  \/ (~UiBusy /\ \E r \in BOOLEAN : handleSendAfterTimer(r))
  \/ (~UiBusy /\ \E d \in Devices : handleSendAfterWrite(d))
  \/ (~UiBusy /\ \E d \in Devices : handleSendCatch(d))
  \/ (~UiBusy /\ replyReceived)
  \/ (~UiBusy /\ \E d \in Devices : notificationReceived(d, Utf8Of(Hello)))

SpecUi == Init /\ [][NextUi]_vars

\* The chat view and what leads to it: the transport is the one the service
\* starts with, scans and connects succeed, sessions end by link loss, and
\* messages are sent and received meanwhile.
NextChat ==
  \/ handleConnect
  \/ chatEffectSubscribes
  \/ (~UiBusy /\ Tick)
  \/ (~UiBusy /\ startScan)
  \/ (~UiBusy /\ startScanAfterTimer)
  \/ (~UiBusy /\ startScanAfterPicker(1))
  \/ (~UiBusy /\ \E i \in 1..Len(connTasks) : handleConnectWaits(i))
  \/ (~UiBusy /\ \E i \in 1..Len(connTasks) : handleConnectAfterTimer(i))
  \/ (~UiBusy /\ \E i \in 1..Len(connTasks) : handleConnectAfterNotifications(i))
  \/ (~UiBusy /\ \E d \in Devices : linkLost(d))
  \/ (~UiBusy /\ chatEffect)
  \/ (~UiBusy /\ handleSend(Hello))
  \/ (~UiBusy /\ \E r \in BOOLEAN : handleSendAfterTimer(r))
  \/ (~UiBusy /\ \E d \in Devices : handleSendAfterWrite(d))
  \/ (~UiBusy /\ \E d \in Devices : handleSendCatch(d))
  \/ (~UiBusy /\ replyReceived)
  \/ (~UiBusy /\ \E d \in Devices : notificationReceived(d, Utf8Of(Hello)))

SpecChat == Init /\ [][NextChat]_vars

\* The same with the scheduling of the renderer: an effect that is due runs,
\* and the handleConnect call startScan makes is made.
SpecChatLive ==
  /\ SpecChat
  /\ WF_vars(handleConnect)
  /\ WF_vars(~UiBusy /\ chatEffect)
  /\ WF_vars(chatEffectSubscribes)

\* The scanner view and the sessions it opens: everything but the messages.
NextScanner ==
  \/ handleConnect
  \/ chatEffectSubscribes
  \/ (~UiBusy /\ toggleSimulation)
  \/ (~UiBusy /\ startScan)
  \/ (~UiBusy /\ startScanAfterTimer)
  \/ (~UiBusy /\ startScanAfterPicker(1))
  \/ (~UiBusy /\ \E e \in ErrorNames : startScanCatch(e))
  \/ (~UiBusy /\ \E i \in 1..Len(connTasks) : handleConnectWaits(i))
  \/ (~UiBusy /\ \E i \in 1..Len(connTasks) : handleConnectAfterTimer(i))
  \/ (~UiBusy /\ \E i \in 1..Len(connTasks) : handleConnectAfterNotifications(i))
  \/ (~UiBusy /\ \E i \in 1..Len(connTasks) : handleConnectCatch(i))
  \/ (~UiBusy /\ \E d \in Devices : linkLost(d))
  \/ (~UiBusy /\ disconnectClicked)
  \/ (~UiBusy /\ chatEffect)

SpecScanner == Init /\ [][NextScanner]_vars

\* The reference peripheral and its clients (on the real transport): they
\* subscribe, unsubscribe and write texts, and the timers the peripheral
\* arms fire (setTimeout).
NextPeripheral ==
  \/ onSubscribe
  \/ onUnsubscribe
  \/ \E data \in WrittenData : onWriteRequest(data)
  \/ \E i \in 1..(MaxWrites + MaxSubscriptions) : timerFires(i)

InitPeripheral == Init /\ ~isSimulation

SpecPeripheral ==
  /\ InitPeripheral /\ [][NextPeripheral]_vars
  /\ WF_vars(\E i \in 1..(MaxWrites + MaxSubscriptions) : timerFires(i))

\* The scanner view with the rows of its list clicked.
NextRows ==
  \/ NextScanner
  \/ (~UiBusy /\ \E k \in 1..Len(MOCK_DEVICES) : rowClicked(k))

SpecRows == Init /\ [][NextRows]_vars

\* The chat view while App renders again under it.
NextRerender ==
  \/ NextChat
  \/ (~UiBusy /\ beforeinstallprompt)

SpecRerender == Init /\ [][NextRerender]_vars

\* A call of scan, connect or send has not settled yet.
CallPending == scanPc # "idle" \/ ConnectInFlight \/ simSends + Total(writes) > 0

\* What a call answers in the simulation branches: scan, connect and send
\* resolve from their timers whatever the state, disconnect returns.
SimulatedOutcome(call) == "ok"

\* The disconnect subscriber as the simulation branches invoke it: no call
\* but disconnect() reaches cleanup(), and with no device cached disconnect()
\* runs it once.
SimulatedSubscriberCalls(call) ==
  IF call = "disconnect" THEN SubscriberCalls(1) ELSE 0

\* One caller with one transport: the mode is the one the service starts in,
\* each call is made when the one before has settled, and the platform and
\* the peer make every step succeed (no rejection, no link loss).
NextSequential ==
  \/ \E c \in Callbacks : onDisconnect(c) /\ UNCHANGED ui
  \/ (~CallPending /\ scan) /\ UNCHANGED ui
  \/ scanTimerFires /\ UNCHANGED ui
  \/ scanResolves(1) /\ UNCHANGED ui
  \/ (~CallPending /\ connect) /\ UNCHANGED ui
  \/ \E i \in 1..Len(connTasks) : connectTimerFires(i) /\ UNCHANGED ui
  \/ \E i \in 1..Len(connTasks) : gattConnectResolves(i) /\ UNCHANGED ui
  \/ \E i \in 1..Len(connTasks) : getPrimaryServiceResolves(i) /\ UNCHANGED ui
  \/ \E i \in 1..Len(connTasks) : getRxCharacteristicResolves(i) /\ UNCHANGED ui
  \/ \E i \in 1..Len(connTasks) : getTxCharacteristicResolves(i) /\ UNCHANGED ui
  \/ \E i \in 1..Len(connTasks) : startNotificationsResolves(i) /\ UNCHANGED ui
  \/ (~CallPending /\ SendsOutstanding < MaxSends /\ send(Hello)) /\ UNCHANGED ui
  \/ sendTimerFires(FALSE) /\ UNCHANGED ui
  \/ \E d \in Devices : writeValueResolves(d) /\ UNCHANGED ui
  \/ (~CallPending /\ callDisconnect) /\ UNCHANGED ui

SpecSequential == Init /\ [][NextSequential]_vars

\* ---- claims ---------------------------------------------------------------
NoSession(phase) == phase \in {"Idle", "Scanned"}

\* C1: after a session has been connected, two disconnect() calls in a row
\* invoke the registered disconnect subscriber exactly once in total, in the
\* real and in the simulated transport.
C1_DisconnectTwiceInvokesOnce ==
  (/\ lastOp.op = "disconnect"
   /\ lastOp.row = 2
   /\ lastOp.rowConnected
   /\ onDisconnectCallback # 0)
  => lastOp.rowCalls = 1

\* C2: an explicit disconnect() on a Connected session, whose closing of the
\* GATT link brings the platform's link-loss signal with it, invokes the
\* disconnect subscriber exactly once, not once per cleanup path.
C2_ReentrantCleanupNoOp ==
  (/\ lastOp.op = "disconnect"
   /\ lastOp.row = 1
   /\ lastOp.phase = "Connected"
   /\ ~lastOp.sim
   /\ onDisconnectCallback # 0)
  => lastOp.discCalls = 1

\* C3: a failing step of the real-mode connect protocol reaches only the
\* caller of connect; the disconnect subscriber is not invoked by it.
C3_FailedConnectSparesSubscriber ==
  lastOp.op = "connectRejected" => lastOp.discCalls = 0

\* C4: when a step of the real-mode connect protocol fails, the device,
\* server and both characteristic handles are null at the moment connect's
\* rejection reaches the caller.
C4_NoHalfOpenSession ==
  lastOp.op = "connectRejected" => HandlesNull

\* C4, its case: a connect rejected at step 4, after both characteristics
\* had been resolved.
C4_RejectedAtStep4 ==
  /\ lastOp.op = "connectRejected"
  /\ lastOp.step = 4
  /\ ~lastOp.handlesKept

\* C5 as stated: connect with no scan before it fails with "device not
\* selected" in the real and in the simulated transport.
C5_ConnectWithoutScanFails ==
  (lastOp.op = "connect" /\ ~everScanned)
  => lastOp.outcome = "deviceNotSelected"

\* C5 as amended: connect with no scan before it fails with "device not
\* selected" when the simulation flag is off, and is accepted (to resolve
\* after its delay) when the flag is on.
C5_ConnectWithoutScanByMode ==
  (lastOp.op = "connect" /\ ~everScanned)
  => lastOp.outcome = (IF lastOp.sim THEN "pending" ELSE "deviceNotSelected")

\* C5, its case: a real-mode connect refused before any scan.
C5_RefusedBeforeScan ==
  /\ lastOp.op = "connect"
  /\ ~everScanned
  /\ ~lastOp.sim
  /\ lastOp.outcome = "deviceNotSelected"

\* C6 as stated: send with no active session fails with "not connected" in
\* either transport mode, and starts nothing that could reach the message
\* subscriber later.
C6_SendWithoutSessionFails ==
  (lastOp.op = "send" /\ NoSession(lastOp.phase))
  => (lastOp.outcome = "notConnected" /\ SendsOutstanding = 0)

\* C6 as amended: with the simulation flag off, send with no active session
\* fails with "not connected", writes nothing and leaves no write, timer or
\* listener behind that could reach the message subscriber; with the flag on
\* the send is accepted whatever the session state.
C6_SendWithoutSessionByMode ==
  [][(lastOp'.op = "send" /\ NoSession(lastOp'.phase))
     => IF lastOp'.sim
        THEN lastOp'.outcome = "pending"
        ELSE /\ lastOp'.outcome = "notConnected"
             /\ ~lastOp'.wrote
             /\ UNCHANGED <<svc, platform, inflight>>]_vars

\* C6, its case: a real-mode send refused after a scan and before any connect.
C6_RefusedWhileScanned ==
  /\ lastOp.op = "send"
  /\ ~lastOp.sim
  /\ lastOp.phase = "Scanned"
  /\ lastOp.outcome = "notConnected"

\* C7: in real mode a send issued in any state but Connected (Idle, Scanned,
\* Connecting, after disconnect or link loss) fails with "not connected" and
\* writes nothing on the outbound characteristic.
C7_SendOnlyWhenConnected ==
  (lastOp.op = "send" /\ ~lastOp.sim /\ lastOp.phase # "Connected")
  => (lastOp.outcome = "notConnected" /\ ~lastOp.wrote)

\* C8: disconnect() with no active session changes no session field and does
\* not invoke the disconnect subscriber, and the subscriber is never invoked
\* more often than sessions were connected (compared while connTotal is
\* below MaxCount, where both totals are exact).
C8_DisconnectWithoutSessionNoOp ==
  /\ (lastOp.op = "disconnect" /\ NoSession(lastOp.phase))
     => (lastOp.discCalls = 0 /\ lastOp.handlesKept)
  /\ (counting /\ connTotal < MaxCount) => discTotal <= connTotal

\* C9: a link-loss signal of the current device received while Connected
\* clears the four handles and invokes the disconnect subscriber exactly once.
C9_LinkLossCleansOnce ==
  (/\ lastOp.op = "linkLoss"
   /\ lastOp.phase = "Connected"
   /\ lastOp.onCurrent
   /\ onDisconnectCallback # 0)
  => (HandlesNull /\ lastOp.discCalls = 1)

\* C10: in every reachable state a null device handle comes with a null
\* server handle and null characteristic handles.
C10_NoPartialTeardown ==
  device = 0 => (server = 0 /\ rxCharacteristic = 0 /\ txCharacteristic = 0)

ConnectOps == {"connect", "connectStep", "connectResolved", "connectRejected"}

\* C12: no step of connect opens the device picker, and a real-mode connect
\* that finds the cached device handle absent fails with "device not
\* selected", changes no field, starts nothing and does not invoke the
\* disconnect subscriber.
C12_ConnectNeverScans ==
  [][/\ lastOp'.op \in ConnectOps => scanPc' = scanPc
     /\ (lastOp'.op = "connect" /\ ~lastOp'.sim /\ device = 0)
        => /\ lastOp'.outcome = "deviceNotSelected"
           /\ lastOp'.discCalls = 0
           /\ UNCHANGED <<svc, subs, platform, inflight, connected, counts, registered, frames, peripheral>>]_vars

\* C12, its case: a real-mode connect refused because an earlier teardown
\* cleared the handle a scan had cached, with a disconnect subscriber registered.
C12_RefusedAfterTeardown ==
  /\ lastOp.op = "connect"
  /\ lastOp.outcome = "deviceNotSelected"
  /\ everScanned
  /\ onDisconnectCallback # 0

\* The await that follows pc in connectToDeviceObject ("done": none, the
\* frame handler is registered and connect resolves).
AwaitAfter(pc) ==
  CASE pc = "gattConnect" -> "getService"
    [] pc = "getService" -> "getRx"
    [] pc = "getRx" -> "getTx"
    [] pc = "getTx" -> "startNotif"
    [] OTHER -> "done"

\* C13: a real-mode connect starts at step 1; a step starts only when the one
\* before it has resolved, in the order open, service, outbound and inbound
\* characteristic, notifications, frame handler; a step that fails ends the
\* call with nothing further started; the frame handler is registered only
\* as the last step.
C13_StepsInOrder ==
  [][/\ Len(connTasks') <= 1
     /\ (connTasks = <<>> /\ connTasks' # <<>>)
        => (lastOp'.op = "connect"
            /\ connTasks'[1].pc \in {"gattConnect", "simTimer"})
     /\ (connTasks # <<>> /\ connTasks[1].pc \in RealPcs)
        => \/ /\ connTasks' # <<>>
              /\ connTasks'[1].pc = connTasks[1].pc
              /\ lastOp'.op \notin {"connectStep", "connectResolved", "connectRejected"}
           \/ /\ lastOp'.op = "connectStep"
              /\ connTasks' # <<>>
              /\ connTasks'[1].pc = AwaitAfter(connTasks[1].pc)
              /\ lastOp'.step = StepOf(connTasks[1].pc)
              /\ ~connTasks[1].aborted
           \/ /\ lastOp'.op = "connectResolved"
              /\ AwaitAfter(connTasks[1].pc) = "done"
              /\ connTasks' = <<>>
           \/ /\ lastOp'.op = "connectRejected"
              /\ connTasks' = <<>>
     /\ txListeners' # txListeners
        => \/ lastOp'.op = "connectResolved"
           \/ \A d \in Devices : txListeners'[d] <= txListeners[d]]_vars

\* C13, its case: a real-mode connect that resolved after its five steps,
\* the frame handler registered on the inbound characteristic.
C13_AllFiveStepsDone ==
  /\ lastOp.op = "connectResolved"
  /\ lastOp.step = 5
  /\ txCharacteristic # 0
  /\ txListeners[txCharacteristic] = 1

\* C14: after a successful connect, a notification carrying the UTF-8 bytes
\* of a text is handed to the registered message subscriber exactly once, as
\* exactly that text.
C14_FrameDeliveredOnceVerbatim ==
  (lastOp.op = "notify" /\ connected /\ onMessageCallback # 0)
  => /\ lastOp.msgCalls = 1
     /\ \A t \in PeerTexts : lastOp.value = Utf8Of(t) => lastOp.text = t

\* C15: the subscriber's invocations follow the notifications one to one and
\* in order: the numbers logged are strictly increasing, and a notification
\* dispatched while a subscriber is registered is the last one logged.
C15_FramesInOrder ==
  framing =>
    /\ \A k \in 1..(Len(delivered) - 1) : delivered[k] < delivered[k + 1]
    /\ (lastOp.op = "notify" /\ lastOp.to # 0)
       => (delivered # <<>> /\ delivered[Len(delivered)] = emitted)

\* C16: an inbound frame, from the peer or fabricated by the simulation, is
\* handed to the callback of the latest onMessage call and to no other.
C16_SingleSlot ==
  (lastOp.op \in {"notify", "simReply"} /\ lastOp.msgCalls > 0)
  => lastOp.to = registered

\* C16, its case: a frame delivered right after a second onMessage call
\* replaced the callback of the first.
C16_DeliveredAfterReplacement ==
  /\ lastOp.op = "notify"
  /\ lastOp.replaced
  /\ lastOp.msgCalls > 0
  /\ lastOp.to = registered

\* Whether a text has a UTF-8 encoding (no unpaired surrogate).
WellFormed(text) == \A k \in 1..Len(text) : text[k] \in Scalars

\* C17: a real-mode send that is accepted puts exactly one write on the
\* outbound (RX) characteristic, carrying the UTF-8 encoding of its text; it
\* resolves when that one write completes; no step of a send changes a
\* session handle or touches the inbound characteristic.
C17_SendWritesOnceOnRx ==
  [][/\ lastOp'.op \in {"send", "sendResolved", "sendRejected"}
        => UNCHANGED <<svc, txListeners>>
     /\ (lastOp'.op = "send" /\ ~lastOp'.sim /\ lastOp'.outcome = "pending")
        => /\ rxCharacteristic # 0
           /\ lastOp'.dev = rxCharacteristic
           /\ writes' = [writes EXCEPT ![rxCharacteristic] = @ + 1]
           /\ WellFormed(lastOp'.text) => lastOp'.value = Utf8Of(lastOp'.text)
     /\ (lastOp'.op = "sendResolved" /\ ~lastOp'.sim)
        => /\ writes[lastOp'.dev] > 0
           /\ writes' = [writes EXCEPT ![lastOp'.dev] = @ - 1]]_vars

\* C17, its case: a send on a Connected session whose text takes more than
\* one byte per character.
C17_WroteAccentedText ==
  /\ lastOp.op = "send"
  /\ lastOp.wrote
  /\ lastOp.phase = "Connected"
  /\ lastOp.text = <<"e-acute">>
  /\ lastOp.value = <<195, 169>>

\* C18: a scan that fails rejects and changes no handle and nothing of the
\* session; the cached device handle gets a new device only from a real-mode
\* scan that resolves.
C18_FailedScanChangesNothing ==
  [][/\ lastOp'.op = "scanRejected"
        => /\ lastOp'.outcome = "rejected"
           /\ UNCHANGED <<svc, subs, platform, connTasks, writes, connected>>
     /\ device' \notin {0, device}
        => (lastOp'.op = "scanResolved" /\ ~lastOp'.sim /\ device' = lastOp'.dev)]_vars

\* C18, its case: a scan rejected while the device of an earlier scan is
\* cached, which stays cached.
C18_RejectedKeepsCache ==
  /\ lastOp.op = "scanRejected"
  /\ device # 0

\* C19: when a connect has been rejected every handle is null, no session is
\* connected and nothing of the call is left pending (state Idle); a scan and
\* a connect made next are accepted, and when that connect resolves the
\* session is Connected, in real mode with a device cached and the server
\* and both characteristics of one link.
C19_CleanAfterFailedConnect ==
  /\ lastOp.op = "connectRejected"
     => (HandlesNull /\ ~connected /\ connTasks = <<>> /\ Phase = "Idle")
  /\ (lastOp.op = "connect" /\ lastOp.afterFailure /\ lastOp.afterScan)
     => lastOp.outcome = "pending"
  /\ (lastOp.op = "connectResolved" /\ lastOp.afterFailure)
     => /\ connected /\ Phase = "Connected"
        /\ ~lastOp.sim =>
             /\ device # 0 /\ server # 0
             /\ rxCharacteristic = server /\ txCharacteristic = server

\* C19, its case: Connected again by a scan and a connect that followed a
\* rejected connect.
C19_ConnectedAfterFailure ==
  /\ lastOp.op = "connectResolved"
  /\ lastOp.afterFailure
  /\ connected
  /\ ~lastOp.sim
  /\ device # 0

\* C20: the service starts nothing on its own.  A rejected connect and a
\* link loss start no scan, no connect step, no write and no timer: the
\* rejected call is gone and every other pending call stays where it was; and
\* a call waits on device.gatt.connect() only from the connect() that
\* started it, never a second time.
C20_NoAutomaticRetry ==
  [][/\ lastOp'.op \in {"connectRejected", "linkLoss"}
        => /\ UNCHANGED <<scanPc, writes, simSends, simReplies>>
           /\ Len(connTasks') <= Len(connTasks)
           /\ lastOp'.op = "connectRejected" => connTasks' = <<>>
           /\ lastOp'.op = "linkLoss"
              => /\ Len(connTasks') = Len(connTasks)
                 /\ \A i \in 1..Len(connTasks) :
                       connTasks'[i].pc = connTasks[i].pc
     /\ (connTasks' # <<>> /\ connTasks'[1].pc = "gattConnect")
        => \/ lastOp'.op = "connect"
           \/ (connTasks # <<>> /\ connTasks[1].pc = "gattConnect")]_vars

\* C20, its case: the link of a Connected session is lost and nothing is
\* pending afterwards.
C20_QuietAfterLinkLoss ==
  /\ lastOp.op = "linkLoss"
  /\ lastOp.phase = "Connected"
  /\ lastOp.onCurrent
  /\ connTasks = <<>>
  /\ scanPc = "idle"
  /\ SendsOutstanding = 0

\* C21: at most one connect is in flight: a connect() called while an earlier
\* one has neither resolved nor rejected is refused as busy and starts no
\* second run of the connect protocol.
C21_SecondConnectBusy ==
  /\ Len(connTasks) <= 1
  /\ (lastOp.op = "connect" /\ lastOp.phase = "Connecting")
     => lastOp.outcome = "busy"

\* The call a settled step answers, "none" for a step that settles no call.
CallSettled ==
  CASE lastOp.op = "scanResolved" -> "scan"
    [] lastOp.op = "connectResolved" -> "connect"
    [] lastOp.op = "connect" /\ lastOp.outcome # "pending" -> "connect"
    [] lastOp.op = "sendResolved" -> "send"
    [] lastOp.op = "send" /\ lastOp.outcome # "pending" -> "send"
    [] lastOp.op = "disconnect" -> "disconnect"
    [] OTHER -> "none"

\* C22: the real and the simulated transport cannot be told apart by a
\* caller: with the platform and the peer succeeding, every call of scan,
\* connect, send and disconnect settles with the outcome, and with the number
\* of disconnect-subscriber invocations, that the same call has on the
\* simulated transport, whichever mode the service is in.
C22_SameAnswerInBothModes ==
  CallSettled # "none"
  => /\ lastOp.outcome = SimulatedOutcome(CallSettled)
     /\ lastOp.discCalls = SimulatedSubscriberCalls(CallSettled)

\* What the simulation's scan does besides its list: it can only resolve, and
\* it writes no handle.
SimScanOnlyResolves ==
  /\ lastOp.op = "scanRejected" => ~lastOp.sim
  /\ (lastOp.op = "scanResolved" /\ lastOp.sim)
     => (lastOp.outcome = "ok" /\ lastOp.handlesKept)

\* C23 as stated: in simulated mode every scan resolves with the fixed list
\* of three entries, each with a non-empty name, a numeric signal value and
\* status "available"; the scan never rejects and never sets the cached
\* device handle.
C23_SimScanListAvailable ==
  /\ SimScanOnlyResolves
  /\ (lastOp.op = "scanResolved" /\ lastOp.sim)
     => /\ Len(lastOp.found) = 3
        /\ \A k \in DOMAIN lastOp.found :
              /\ lastOp.found[k].name # ""
              /\ lastOp.found[k].rssi \in Int
              /\ "status" \in DOMAIN lastOp.found[k]
              /\ lastOp.found[k].status = "available"

\* C23, amended: in simulated mode every scan resolves with the fixed list
\* of three entries, each made of an identifier, a non-empty name and a
\* numeric signal value and of nothing else (the entries of the service carry
\* no status); the scan never rejects and never sets the cached device
\* handle.
C23_SimScanList ==
  /\ SimScanOnlyResolves
  /\ (lastOp.op = "scanResolved" /\ lastOp.sim)
     => /\ Len(lastOp.found) = 3
        /\ \A k \in DOMAIN lastOp.found :
              /\ DOMAIN lastOp.found[k] = {"id", "name", "rssi"}
              /\ lastOp.found[k].name # ""
              /\ lastOp.found[k].rssi \in Int
        /\ \A j, k \in DOMAIN lastOp.found :
              lastOp.found[j].id = lastOp.found[k].id => j = k

\* C23, its case: a simulated scan resolves while the device of an earlier
\* real scan is cached, and the device stays cached.
C23_SimScanBesideCachedDevice ==
  /\ lastOp.op = "scanResolved"
  /\ lastOp.sim
  /\ lastOp.found = MOCK_DEVICES
  /\ device # 0

\* A connect() made in simulated mode is waiting for its 1000 ms timer.
SimConnectPending == \E i \in DOMAIN connTasks : connTasks[i].pc = "simTimer"

\* C24: in simulated mode a connect call is accepted in every state and
\* eventually resolves successfully (it has no error path); neither the call
\* nor its resolution changes a session handle.
C24_SimConnectResolves ==
  /\ []((lastOp.op = "connect" /\ lastOp.sim) => lastOp.outcome = "pending")
  /\ [][(lastOp'.op \in {"connect", "connectResolved"} /\ lastOp'.sim)
          => UNCHANGED svc]_vars
  /\ (SimConnectPending
        ~> (lastOp.op = "connectResolved" /\ lastOp.sim /\ lastOp.outcome = "ok"))

\* C24, its case: a simulated connect resolves with no device cached.
C24_ResolvedWithoutDevice ==
  /\ lastOp.op = "connectResolved"
  /\ lastOp.sim
  /\ lastOp.outcome = "ok"
  /\ HandlesNull

\* The strings of MOCK_RESPONSES.
Corpus == {MOCK_RESPONSES[r] : r \in DOMAIN MOCK_RESPONSES}

\* C25: in simulated mode every send eventually resolves successfully,
\* with or without a reply; when sends are repeated with a message subscriber
\* registered and the reply branch is chosen fairly, the subscriber is
\* eventually invoked with a reply from the fixed corpus; each send schedules
\* at most one reply, and each reply invokes the subscriber once.
C25_SimSendResolvesAndReplies ==
  /\ (simSends > 0
        ~> (lastOp.op = "sendResolved" /\ lastOp.sim /\ lastOp.outcome = "ok"))
  /\ ([]<>(lastOp.op = "send" /\ lastOp.sim /\ onMessageCallback # 0)
        => <>(/\ lastOp.op = "simReply"
              /\ lastOp.msgCalls = 1
              /\ lastOp.to # 0
              /\ lastOp.reply \in Corpus))
  /\ [][/\ (simReplies' > simReplies)
           => /\ simReplies' = simReplies + 1
              /\ simSends' = simSends - 1
              /\ lastOp'.op = "sendResolved"
        /\ (lastOp'.op = "simReply")
           => /\ simReplies' = simReplies - 1
              /\ lastOp'.msgCalls = 1
              /\ lastOp'.reply \in Corpus]_vars

\* C25, its case: a fabricated reply reaches the registered subscriber.
C25_ReplyDelivered ==
  /\ lastOp.op = "simReply"
  /\ lastOp.msgCalls = 1
  /\ lastOp.to # 0
  /\ lastOp.to = onMessageCallback
  /\ lastOp.reply = MOCK_RESPONSES[3]

\* The flags of the messages that were in the log before the step and are
\* in it after the step are the same.
PendingFlagsKept ==
  \A k \in DOMAIN chat.messages \cap DOMAIN chat'.messages :
     chat'.messages[k].id = chat.messages[k].id
     => chat'.messages[k].isPending = chat.messages[k].isPending

\* C26: in the chat view a local message enters the log with pending = true;
\* when the send call of the mounted chat view returns, resolved or rejected,
\* with or without a reply scheduled, its message if still in the log has
\* pending = false; no other step changes a pending flag, the arrival of an
\* inbound message included.
C26_PendingUntilSendReturns ==
  [][/\ (uiOp'.op = "handleSend" /\ lastOp'.outcome = "pending")
        => /\ Len(chat'.messages) = Len(chat.messages) + 1
           /\ chat'.messages[Len(chat'.messages)].id = uiOp'.id
           /\ chat'.messages[Len(chat'.messages)].isPending
           /\ PendingFlagsKept
     /\ (uiOp'.op \in {"sent", "sendFailed"} /\ uiOp'.inst = chat.instance)
        => /\ \A k \in DOMAIN chat'.messages :
                 chat'.messages[k].id = uiOp'.id => ~chat'.messages[k].isPending
           /\ (\E k \in DOMAIN chat.messages : chat.messages[k].id = uiOp'.id)
              => (\E k \in DOMAIN chat'.messages : chat'.messages[k].id = uiOp'.id)
     /\ uiOp'.op \notin {"sent", "sendFailed"} => PendingFlagsKept
     /\ uiOp'.op = "messageReceived"
        => (Len(chat'.messages) >= Len(chat.messages) /\ PendingFlagsKept)]_vars

\* C26, its case: a simulated send has returned and its message is marked
\* sent while the reply it scheduled has not arrived yet.
C26_SentBeforeReply ==
  /\ uiOp.op = "sent"
  /\ simReplies > 0
  /\ \E k \in DOMAIN chat.messages :
        chat.messages[k].id = uiOp.id /\ ~chat.messages[k].isPending

\* C27: message identifiers are unique: no two messages of the chat log
\* have the same identifier, two sends started within one clock tick
\* included, so that the completion of a send marks exactly one message.
C27_MessageIdsUnique ==
  \A j, k \in DOMAIN chat.messages :
     chat.messages[j].id = chat.messages[k].id => j = k

\* C28: every loss of the link of a session, one that comes after connect
\* resolved and before the chat view registered its disconnect subscriber
\* included, leads to the scanner view with no active device.
C28_LinkLossReturnsToScanner ==
  (lastOp.op = "linkLoss" /\ lastOp.phase = "Connected" /\ lastOp.onCurrent)
    ~> (app.currentView = "SCANNER" /\ app.activeDevice = NoDevice)

\* C29: at most one link is active at a time: no device other than the
\* cached one is GATT-connected, and the server and characteristic handles
\* that are held belong to the cached device, a scan and a connect made
\* while a session is Connected included.
C29_OneActiveLink ==
  /\ \A d \in Devices : gattConnected[d] => d = device
  /\ \A h \in {server, rxCharacteristic, txCharacteristic} : h # 0 => h = device

\* The scanner after a scan that found nothing: an error is shown, the
\* indicator is off and no handleConnect call is due.
ZeroResultHandled(sc) ==
  /\ sc.error # ""
  /\ ~sc.isScanning
  /\ sc.connectDue = <<>>

\* C30: the scanner handles both zero-result outcomes of scan.  When scan
\* rejects (with NotFoundError or another error), and when startScan's
\* continuation is given an empty list in a state where a scan is awaited,
\* no connect is attempted, an error message is set and the indicator is
\* off in the scanner view, so that a new scan can be started.
C30_ZeroResultsHandled ==
  /\ uiOp.op = "scanFailed"
       => /\ ZeroResultHandled(scanner)
          /\ app.currentView = "SCANNER"
          /\ lastOp.op = "scanRejected"
          /\ connTasks = <<>>
  /\ scanPc # "idle"
       => /\ ZeroResultHandled(startScanResolved(scanner, <<>>))
          /\ app.currentView = "SCANNER"
          /\ connTasks = <<>>

\* C30 (witness): the picker was dismissed (NotFoundError) and the scanner
\* shows the message of that error with the indicator off.
C30_PickerDismissed ==
  /\ uiOp.op = "scanFailed"
  /\ scanner.error = ScanErrorText("NotFoundError")
  /\ ~scanner.isScanning
  /\ scanPc = "idle"

\* C31: the scanner calls scan within the click handler, with no suspension
\* between the click and the call: the step of the click is the step in
\* which the service's scan starts (the picker is requested, or the timer
\* of the simulation armed), and scan is started by no other step.
C31_ScanInClickStep ==
  /\ uiOp.op = "startScan"
       => /\ lastOp.op = "scan"
          /\ scanPc = IF lastOp.sim THEN "timer" ELSE "picker"
  /\ lastOp.op = "scan" => uiOp.op = "startScan"

\* C31 (witness): the click has just requested the picker of the platform.
C31_PickerRequestedByClick ==
  uiOp.op = "startScan" /\ lastOp.op = "scan" /\ ~lastOp.sim /\ scanPc = "picker"

\* C32: link-loss listeners do not accumulate: however many connects were
\* made on a device object it carries at most one listener, so that one
\* link-loss signal runs cleanup once and invokes the disconnect subscriber
\* at most once.
C32_ListenersDoNotAccumulate ==
  /\ \A d \in Devices : listeners[d] <= 1
  /\ lastOp.op = "linkLoss" => lastOp.discCalls <= 1

\* C33: a link-loss signal of a device that is not the cached one (replaced
\* by a later scan, or left behind by a session that ended or a connect
\* that failed) leaves the handles of the service as they are and does not
\* invoke the disconnect subscriber.
C33_StaleLinkLossIgnored ==
  (lastOp.op = "linkLoss" /\ ~lastOp.onCurrent)
    => (lastOp.handlesKept /\ lastOp.discCalls = 0)

\* C34: once the disconnect subscriber has been invoked the message
\* subscriber is not invoked until a new connect succeeds; in particular
\* the step that follows the end of a Connected session, when it is the
\* timer of a fabricated reply or an inbound notification, hands nothing
\* to the message subscriber.
C34_NoMessageAfterDisconnect ==
  [][(/\ lastOp.discCalls > 0
      /\ lastOp.phase = "Connected"
      /\ lastOp'.op \in {"simReply", "notify"})
     => lastOp'.msgCalls = 0]_vars

\* C35: every inbound frame of the current device that arrives after
\* connect resolved is appended to the log of the chat view as a partner
\* message with its text, a frame that arrives before the chat view has
\* registered its message subscriber included; none is dropped or handed
\* to the subscriber of an earlier session.
C35_InboundFrameInLog ==
  [][(/\ lastOp'.op = "notify"
      /\ lastOp'.phase = "Connected"
      /\ uiOp'.op = "messageReceived"
      /\ app.currentView = "CHAT")
     => /\ Len(chat'.messages) = Len(chat.messages) + 1
        /\ chat'.messages[Len(chat'.messages)].sender = "partner"
        /\ chat'.messages[Len(chat'.messages)].text = lastOp'.text
        /\ lastOp'.to = chat.instance]_vars

\* C36: while the chat view is shown for one session its log only grows: a
\* step that leaves the same chat view mounted keeps every message of the
\* log in its place, a render of App with a new onDisconnect function
\* included.
C36_LogOnlyGrows ==
  [][(/\ app.currentView = "CHAT"
      /\ app'.currentView = "CHAT"
      /\ chat'.instance = chat.instance)
     => /\ Len(chat'.messages) >= Len(chat.messages)
        /\ \A k \in DOMAIN chat.messages :
              chat'.messages[k].id = chat.messages[k].id]_vars

\* C37: the scanner never has two connect calls in flight at once: once the
\* connect to the first descriptor has started, no click on a row and no
\* press of the scan button starts another before it resolved or rejected.
C37_OneConnectInFlight == Len(connTasks) <= 1

\* C38: in the App shell the chat view is current only with an active
\* device set (and the scanner view only with none), the view becomes CHAT
\* only in the step in which a connect resolves and the scanner reports it,
\* and every step that runs handleDisconnect (the disconnect subscriber is
\* invoked) leaves the view at SCANNER with no active device.
C38_ShellConsistent ==
  [][/\ (app'.currentView = "CHAT") <=> (app'.activeDevice # NoDevice)
     /\ (app.currentView # "CHAT" /\ app'.currentView = "CHAT")
        => (lastOp'.op = "connectResolved" /\ uiOp'.op = "connected")
     /\ lastOp'.discCalls > 0
        => (app'.currentView = "SCANNER" /\ app'.activeDevice = NoDevice)]_vars

\* C38 (witness): a link loss has run handleDisconnect and the shell is
\* back at the scanner with no active device, after a chat view was shown.
C38_BackAtScanner ==
  /\ uiOp.op = "linkLost"
  /\ lastOp.discCalls > 0
  /\ chat.instance >= 1
  /\ app = [currentView |-> "SCANNER", activeDevice |-> NoDevice]

\* The reply to write request n is armed and has not fired.
ReplyArmed(n) ==
  \E i \in DOMAIN peripheral.timers :
     peripheral.timers[i].kind = "reply" /\ peripheral.timers[i].n = n

\* What C39 says of every state: every write received is acknowledged, has
\* at most one notification, and none while its reply is armed; a write just
\* received has its reply armed; and the reply that has just fired emitted
\* a notification, holding the written bytes, exactly when a client was
\* subscribed, and then it is the only one for that write.
AckedThenReplied ==
  /\ \A n \in 1..peripheral.writes :
        /\ \E a \in DOMAIN peripheral.acks : peripheral.acks[a] = n
        /\ peripheral.out[n] <= 1
        /\ ReplyArmed(n) => peripheral.out[n] = 0
  /\ peripheral.last.op = "write" => ReplyArmed(peripheral.last.n)
  /\ peripheral.last.op = "reply" =>
        LET n == peripheral.last.n IN
        /\ ~ReplyArmed(n)
        /\ peripheral.out[n] = IF peripheral.last.sub # 0 THEN 1 ELSE 0
        /\ (peripheral.last.sub # 0) <=> (peripheral.last.emitted # <<>>)
        /\ peripheral.last.sub # 0
             => Contains(peripheral.last.emitted, peripheral.written[n])

\* C39: the reference peripheral acknowledges every write before its reply,
\* and for each write the delayed reply fires later and emits exactly one
\* notification on TX holding the written text if a client is subscribed
\* when it fires, and nothing if none is.
C39_PeripheralEchoes ==
  /\ []AckedThenReplied
  /\ \A n \in 1..MaxWrites : ReplyArmed(n) ~> ~ReplyArmed(n)

\* C39 (witness): one write was echoed to its subscriber, and the reply of
\* the next has just fired with no client subscribed and was dropped.
C39_EchoedAndDropped ==
  /\ peripheral.last = PeripheralStep("reply", 2, 0, <<>>)
  /\ peripheral.out[1] = 1
  /\ peripheral.out[2] = 0
  /\ peripheral.written[1] = Utf8Of(<<"U+FEFF", "e-acute">>)

====
